---- MODULE Spec2Model ----
(***************************************************************************)
(* RIFTLang link-then-codec pipeline (rift_codec.c / rift_codec.h).        *)
(*                                                                         *)
(* Phase 1, rift_link: one forward pass over the source lines, one action  *)
(* per branch of the classification chain.  Phase 2, rift_codec_emit:      *)
(* header, node rendering, footer.                                         *)
(*                                                                         *)
(* Text is a sequence of one-character strings, so that the C string       *)
(* functions (strchr, strstr, strncmp, atoi, ...) are computed on the      *)
(* characters as the code computes them.  A C pointer into a string is a   *)
(* 1-based index; "not found" (NULL) is index 0.                           *)
(***************************************************************************)
EXTENDS Integers, Sequences, FiniteSets, TLC

(***************************************************************************)
(* Sizes                                                                   *)
(***************************************************************************)

\* rift_codec.h: buffers of RIFT_CIR_MAX_STR bytes
RIFT_CIR_MAX_STR == 256
\* rift_codec.h: char mode[32], span_kind[32], field_type[32]; mbuf[32], ftbuf[32]
SHORT_STR == 32
\* rift_link: char line_buf[4096]
LINE_BUF == 4096
\* rift_codec.h sets RIFT_CIR_MAX_NODES to 1024 and RIFT_CIR_MAX_VARS to 64.
\* Both are scaled down here so that sources of a few lines reach them.
RIFT_CIR_MAX_NODES == 5
RIFT_CIR_MAX_VARS == 1
\* longest source of the general family (after its preamble)
MaxLines == 3
\* longest source of the capacity family
MaxLongLines == 7
\* longest source of the short family (after its preamble)
MaxShortLines == 2
\* longest body of the policy family (after its span and policy opener)
MaxPolicyLines == 4
\* longest body of the type family (after its span and type opener)
MaxTypeLines == 4
\* longest body of the variable family (after its span)
MaxVarLines == 3
\* longest source of the nesting family
MaxNestLines == 4
\* longest source of the text family
MaxTextLines == 3
\* longest body of the field family (after its span and type opener)
MaxFieldLines == 2
\* longest body of the expression family (after its span)
MaxExprLines == 2
\* longest body of the scope family (after its span)
MaxScopeLines == 4
\* the sink fails from its first, ..., MaxFailAt-th write on, or never
MaxFailAt == 2

(***************************************************************************)
(* C string functions                                                      *)
(***************************************************************************)

Min2(a, b) == IF a < b THEN a ELSE b

MinOf(S) == CHOOSE x \in S : \A y \in S : x <= y

MaxOf(S) == CHOOSE x \in S : \A y \in S : x >= y

\* isspace() in the C locale: space, \t, \n, \v, \f, \r (no \v escape here)
IsSpace(c) == c \in {" ", "\t", "\n", "\f", "\r"}

IsDigit(c) == c \in {"0", "1", "2", "3", "4", "5", "6", "7", "8", "9"}

DigitVal(c) ==
    CASE c = "0" -> 0 [] c = "1" -> 1 [] c = "2" -> 2 [] c = "3" -> 3
      [] c = "4" -> 4 [] c = "5" -> 5 [] c = "6" -> 6 [] c = "7" -> 7
      [] c = "8" -> 8 [] c = "9" -> 9

\* the string that starts at pointer s + n
Drop(s, n) == SubSeq(s, n + 1, Len(s))

RECURSIVE cir_trim_left(_)
cir_trim_left(s) ==
    IF s # <<>> /\ IsSpace(Head(s)) THEN cir_trim_left(Tail(s)) ELSE s

RECURSIVE cir_trim_right(_)
cir_trim_right(s) ==
    IF s # <<>> /\ IsSpace(s[Len(s)])
    THEN cir_trim_right(SubSeq(s, 1, Len(s) - 1))
    ELSE s

cir_starts_with(s, prefix) ==
    /\ Len(s) >= Len(prefix)
    /\ SubSeq(s, 1, Len(prefix)) = prefix

\* strncpy(dest, src, dest_size - 1) and a terminating NUL
cir_safe_copy(src, dest_size) == SubSeq(src, 1, Min2(Len(src), dest_size - 1))

\* index of the first c in s, 0 when there is none
strchr(s, c) ==
    LET I == {i \in 1..Len(s) : s[i] = c}
    IN  IF I = {} THEN 0 ELSE MinOf(I)

\* index of the last c in s, 0 when there is none
strrchr(s, c) ==
    LET I == {i \in 1..Len(s) : s[i] = c}
    IN  IF I = {} THEN 0 ELSE MaxOf(I)

\* index of the first occurrence of sub in s, 0 when there is none
strstr(s, sub) ==
    LET I == {i \in 1..(Len(s) - Len(sub) + 1) : SubSeq(s, i, i + Len(sub) - 1) = sub}
    IN  IF I = {} THEN 0 ELSE MinOf(I)

\* the string cut at index i (s[i] = '\0'), unchanged when i = 0
CutAt(s, i) == IF i = 0 THEN s ELSE SubSeq(s, 1, i - 1)

RECURSIVE atoi_digits(_, _)
atoi_digits(s, acc) ==
    IF s # <<>> /\ IsDigit(Head(s))
    THEN atoi_digits(Tail(s), acc * 10 + DigitVal(Head(s)))
    ELSE acc

\* atoi: leading white space, an optional sign, then the leading digits
atoi(s) ==
    LET t == cir_trim_left(s)
    IN  IF t # <<>> /\ Head(t) = "-" THEN 0 - atoi_digits(Tail(t), 0)
        ELSE IF t # <<>> /\ Head(t) = "+" THEN atoi_digits(Tail(t), 0)
        ELSE atoi_digits(t, 0)

\* content between the first '(' and the last ')' of the line
cir_extract_parens(line, out_size) ==
    LET open  == strchr(line, "(")
        close == strrchr(line, ")")
    IN  IF open = 0 THEN cir_safe_copy(line, out_size)
        ELSE IF close = 0 \/ close <= open + 1
             THEN cir_safe_copy(Drop(line, open), out_size)
             ELSE SubSeq(line, open + 1,
                         open + Min2(close - (open + 1), out_size - 1))

\* span kind between '<' and the next '>', "fixed" when either is missing
cir_extract_span_kind(line, out_size) ==
    LET open == strchr(line, "<")
        rest == Drop(line, open)
        close == strchr(rest, ">")
    IN  IF open = 0 THEN cir_safe_copy(<<"f","i","x","e","d">>, out_size)
        ELSE IF close = 0 THEN cir_safe_copy(<<"f","i","x","e","d">>, out_size)
        ELSE SubSeq(rest, 1, Min2(close - 1, out_size - 1))

\* comment text behind "//" or behind a one-line "/* ... */"
cir_strip_comment_prefix(line, out_size) ==
    LET s == IF cir_starts_with(line, <<"/","/">>) THEN Drop(line, 2)
             ELSE IF cir_starts_with(line, <<"/","*">>)
                  THEN LET t == Drop(line, 2)
                           end == strstr(t, <<"*","/">>)
                       IN  IF end # 0 THEN Drop(t, end + 1) ELSE t
                  ELSE line
    IN  cir_trim_right(cir_safe_copy(cir_trim_left(s), out_size))

(***************************************************************************)
(* Source lines the model draws its inputs from                            *)
(***************************************************************************)

(* two spaces *)
L_BLANK == <<" "," ">>
(* // c *)
L_COMMENT == <<"/","/"," ","c">>
(* !govern classical *)
L_GOVERN_C == <<"!","g","o","v","e","r","n"," ","c","l","a","s","s","i","c","a","l">>
(* !govern quantum *)
L_GOVERN_Q == <<"!","g","o","v","e","r","n"," ","q","u","a","n","t","u","m">>
(* !govern hybrid *)
L_GOVERN_H == <<"!","g","o","v","e","r","n"," ","h","y","b","r","i","d">>
(* align span<row> { *)
L_SPAN_OPEN == <<"a","l","i","g","n"," ","s","p","a","n","<","r","o","w",">"," ","{">>
(* align span<fixed> { bytes: 4096 } *)
L_SPAN_ONE == <<"a","l","i","g","n"," ","s","p","a","n","<","f","i","x","e","d",">"," ","{"," ","b","y","t","e","s",":"," ","4","0","9","6"," ","}">>
(*   bytes: 64, *)
L_BYTES == <<" "," ","b","y","t","e","s",":"," ","6","4",",">>
(* } *)
L_CLOSE == <<"}">>
(* type P = { *)
L_TYPE == <<"t","y","p","e"," ","P"," ","="," ","{">>
(*   x: INT, *)
L_FIELD == <<" "," ","x",":"," ","I","N","T",",">>
(* y: FLOAT *)
L_FIELD_Y == <<"y",":"," ","F","L","O","A","T">>
(* s: STRING, *)
L_FIELD_S == <<"s",":"," ","S","T","R","I","N","G",",">>
(* b: BOOL *)
L_FIELD_B == <<"b",":"," ","B","O","O","L">>
(* policy_fn on p { *)
L_POLICY == <<"p","o","l","i","c","y","_","f","n"," ","o","n"," ","p"," ","{">>
(* while (x > 0) { *)
L_WHILE == <<"w","h","i","l","e"," ","(","x"," ",">"," ","0",")"," ","{">>
(* if (x) { *)
L_IF == <<"i","f"," ","(","x",")"," ","{">>
(* validate(x) *)
L_VALIDATE == <<"v","a","l","i","d","a","t","e","(","x",")">>
(* x := 5 *)
L_ASSIGN_X == <<"x"," ",":","="," ","5">>
(* y := x + 1 *)
L_ASSIGN_Y == <<"y"," ",":","="," ","x"," ","+"," ","1">>
(* x := 5 + 3 *)
L_ASSIGN_SUM == <<"x"," ",":","="," ","5"," ","+"," ","3">>
(* x := -7 *)
L_ASSIGN_NEG == <<"x"," ",":","="," ","-","7">>
(* while (x > 0) { x := x - 1 } *)
L_WHILE_ONE ==
    <<"w","h","i","l","e"," ","(","x"," ",">"," ","0",")"," ","{"," ",
      "x"," ",":","="," ","x"," ","-"," ","1"," ","}">>
(* { *)
L_OPEN == <<"{">>
(* foo *)
L_UNKNOWN == <<"f","o","o">>

Lines ==
    { L_BLANK, L_COMMENT, L_GOVERN_C, L_GOVERN_Q, L_GOVERN_H, L_SPAN_OPEN,
      L_SPAN_ONE, L_BYTES, L_CLOSE, L_TYPE, L_FIELD, L_POLICY, L_WHILE, L_IF,
      L_VALIDATE, L_ASSIGN_X, L_ASSIGN_Y, L_OPEN, L_UNKNOWN }

\* lines of the capacity family: each commits a node, or opens / closes a span
LongLines == { L_COMMENT, L_SPAN_OPEN, L_CLOSE, L_ASSIGN_X }

\* lines of the short family: one line for each branch of the classification,
\* and the one-line while
ShortLines ==
    (Lines \ { L_GOVERN_C, L_GOVERN_H, L_SPAN_ONE, L_BYTES, L_ASSIGN_Y })
      \cup { L_WHILE_ONE }

\* a line of one character more than a text field of a node holds
L_LONG == [i \in 1..(RIFT_CIR_MAX_STR + 1) |-> "z"]

\* lines of the text family: what the fallback branch and its neighbour read
TextLines == { L_LONG, L_UNKNOWN, L_OPEN, L_BLANK }

\* lines of the nesting family: block openers, closers and the lone brace
NestLines == { L_WHILE, L_IF, L_CLOSE, L_OPEN }

\* lines of the type family: what a type block and the lines behind it hold
TypeLines == { L_FIELD, L_FIELD_Y, L_CLOSE, L_TYPE, L_UNKNOWN }

\* lines of the field family: one field line for each kind of type token
FieldLines == { L_FIELD, L_FIELD_Y, L_FIELD_S, L_FIELD_B }

\* lines of the scope family: block openers, the closer and an assignment
ScopeLines == { L_WHILE, L_IF, L_CLOSE, L_ASSIGN_X }

\* lines of the expression family: assignments of a literal, of a negative
\* literal, of a symbolic and of a compound expression
ExprLines == { L_ASSIGN_X, L_ASSIGN_NEG, L_ASSIGN_Y, L_ASSIGN_SUM }

AllLines ==
    Lines \cup LongLines \cup ShortLines \cup TextLines \cup TypeLines \cup NestLines
      \cup FieldLines \cup ExprLines \cup ScopeLines

SeqsUpTo(S, n) == UNION { [1..k -> S] : k \in 0..n }

\* a source starts with nothing or with a complete two-line span block
Preambles == { <<>>, <<L_SPAN_OPEN, L_CLOSE>> }

GeneralSources == { pre \o body : pre \in Preambles, body \in SeqsUpTo(Lines, MaxLines) }

LongSources == SeqsUpTo(LongLines, MaxLongLines)

\* lines of the policy family: what a policy body with a nested block holds
PolicyLines == { L_IF, L_CLOSE, L_ASSIGN_X, L_UNKNOWN }

\* a closed span, a multi-line policy opener, then the lines that follow it
PolicySources ==
    { << L_SPAN_OPEN, L_CLOSE, L_POLICY >> \o body :
        body \in SeqsUpTo(PolicyLines, MaxPolicyLines) }

\* a closed span, a multi-line type opener, then the lines that follow it
TypeSources ==
    { << L_SPAN_OPEN, L_CLOSE, L_TYPE >> \o body :
        body \in SeqsUpTo(TypeLines, MaxTypeLines) }

\* a closed span, a multi-line type opener, then field lines
FieldSources ==
    { << L_SPAN_OPEN, L_CLOSE, L_TYPE >> \o body :
        body \in SeqsUpTo(FieldLines, MaxFieldLines) }

\* lines of the variable family: assignments to two names
VarLines == { L_ASSIGN_X, L_ASSIGN_Y }

\* a closed span, then assignments
VarSources ==
    { << L_SPAN_OPEN, L_CLOSE >> \o body : body \in SeqsUpTo(VarLines, MaxVarLines) }

\* a closed span, then assignments of the expression family
ExprSources ==
    { << L_SPAN_OPEN, L_CLOSE >> \o body : body \in SeqsUpTo(ExprLines, MaxExprLines) }

\* a closed span, then assignments inside and outside while/if blocks
ScopeSources ==
    { << L_SPAN_OPEN, L_CLOSE >> \o body : body \in SeqsUpTo(ScopeLines, MaxScopeLines) }

\* sources of nested while/if blocks
NestSources == SeqsUpTo(NestLines, MaxNestLines)

\* sources of lines that match no construct rule
TextSources == SeqsUpTo(TextLines, MaxTextLines)

ShortSources ==
    { pre \o body : pre \in Preambles, body \in SeqsUpTo(ShortLines, MaxShortLines) }

Modes == { "RIFT_MODE_CLASSICAL", "RIFT_MODE_QUANTUM", "RIFT_MODE_HYBRID" }

(***************************************************************************)
(* RiftCIRNode, RiftCIRProgram                                             *)
(***************************************************************************)

\* a node after memset(&node, 0, sizeof(node)); kind 0 is CIR_GOVERN
ZeroNode ==
    [ kind |-> "CIR_GOVERN", source_line |-> 0,
      mode |-> <<>>, span_kind |-> <<>>, span_bytes |-> 0,
      type_name |-> <<>>, field_name |-> <<>>, field_type |-> <<>>,
      is_last_field |-> FALSE,
      var_name |-> <<>>, expr |-> <<>>, is_first_use |-> FALSE,
      condition |-> <<>>, validate_arg |-> <<>>, policy_name |-> <<>>,
      text |-> <<>> ]

\* the message as it would be with a 0-based line number
ErrorMsg_zero_based(ln, fmt) == [ fmt |-> fmt, args |-> << ln - 1 >> ]

\* snprintf(prog->error_msg, ..., "line %u: <what>", line_num): the format and
\* its %u argument
ErrorMsg(ln, fmt) == [ fmt |-> fmt, args |-> << ln >> ]

\* error_msg after calloc: the empty string
NoError == [ fmt |-> "", args |-> << >> ]

TYPE_BEFORE_SPAN ==
    "line %u: type declaration before span (violates memory-first ordering)"

ASSIGN_BEFORE_SPAN ==
    "line %u: assignment before span declaration (violates memory-first ordering)"

\* a program after calloc(1, sizeof(RiftCIRProgram)); mode 0 is classical
ZeroProgram ==
    [ nodes |-> <<>>, mode |-> "RIFT_MODE_CLASSICAL",
      consensus_ok |-> FALSE, error_msg |-> NoError ]

VARIABLES
    source,              \* the source text, as its lines (rift_link argument)
    default_mode,        \* the mode argument of rift_link
    pc,                  \* "call", "scan", "done": where rift_link is
    result,              \* what rift_link returned: "none" yet, "NULL", "prog"
    prog,                \* *prog
    seen_span, in_span_block, in_type_block, in_policy_block,
    block_depth, line_num,
    p,                   \* index of the line p points at
    pending, pending_field_count,
    declared_vars,       \* declared_vars[0..var_count-1]
    attempts,            \* history: every node handed to COMMIT, in order
    fate,                \* history: what became of each visited line
    target,              \* the target argument of rift_codec_emit
    epc,                 \* where rift_codec_emit is: "idle", "nodes", "wat_locals",
                         \* "wat_body", "returned"
    emit_ret,            \* what rift_codec_emit returned: "none" yet, "true", "false"
    out,                 \* the output sink: the fprintf(out, ...) calls made, in order
    err,                 \* stderr: the fprintf(stderr, ...) calls made, in order
    indent_depth,        \* rift_codec_emit's indent_depth, codec_emit_wat's depth
    ei,                  \* the loop index i of the emitter, as a 1-based index
    sink_fail_at,        \* environment: the sink fails from this fprintf on (0: never)
    sink_error,          \* a fprintf(out, ...) has failed
    run,                 \* which run of the pipeline this is: 1 or 2
    first,               \* history: what the first run produced
    drv                  \* compile_rift_file's non-C path: where it is, its target,
                         \* the output file, and its calls of emit and free

linkLocals ==
    << seen_span, in_span_block, in_type_block, in_policy_block, block_depth,
       pending, pending_field_count, declared_vars >>

linkVars ==
    << source, default_mode, pc, result, prog, linkLocals, line_num, p,
       attempts, fate >>

\* everything but *prog
linkRest ==
    << source, default_mode, pc, result, linkLocals, line_num, p, attempts, fate >>

\* the environment of the emitter and the record of the first run
envVars == << sink_fail_at, run, first, drv >>

emitVars ==
    << target, epc, emit_ret, out, err, indent_depth, ei, sink_error, envVars >>

vars == << linkVars, emitVars >>

var_count == Len(declared_vars)

(***************************************************************************)
(* Phase 1: rift_link                                                      *)
(***************************************************************************)

\* COMMIT as it would be with the last slot overwritten when the array is full
COMMIT_overwrite(nodes, node) ==
    IF Len(nodes) < RIFT_CIR_MAX_NODES THEN Append(nodes, node)
    ELSE [nodes EXCEPT ![Len(nodes)] = node]

\* COMMIT as it would be without the capacity check
COMMIT_no_cap(nodes, node) == Append(nodes, node)

\* COMMIT(node_ptr): append when there is room, else drop
COMMIT(nodes, node) ==
    IF Len(nodes) < RIFT_CIR_MAX_NODES THEN Append(nodes, node) ELSE nodes

\* the advance of p as it would be if it skipped a line
NextP_skip(q) == q + 2

\* the advance of p as it would be if p stayed on the same line
NextP_stay(q) == q

\* p = eol ? eol + 1 : p + strlen(p): on to the next line
NextP(q) == q + 1

\* true if name is in vars[0..count-1]
cir_var_seen(dvars, name) == \E i \in 1..Len(dvars) : dvars[i] = name

\* the line copied to line_buf and right-trimmed
LineBuf(line) == cir_trim_right(SubSeq(line, 1, Min2(Len(line), LINE_BUF - 1)))

\* which branch of the normal classification a trimmed line takes (first match wins)
Classify(t) ==
    IF cir_starts_with(t, <<"/","/">>) \/ cir_starts_with(t, <<"/","*">>) THEN "comment"
    ELSE IF cir_starts_with(t, <<"!","g","o","v","e","r","n">>) THEN "govern"
    ELSE IF cir_starts_with(t, <<"a","l","i","g","n"," ","s","p","a","n","<">>)
         THEN "span_start"
    ELSE IF cir_starts_with(t, <<"t","y","p","e"," ">>) /\ strchr(t, "=") # 0
         THEN "type_start"
    ELSE IF cir_starts_with(t, <<"p","o","l","i","c","y","_","f","n"," ","o","n">>)
         THEN "policy"
    ELSE IF cir_starts_with(t, <<"w","h","i","l","e"," ">>)
            \/ cir_starts_with(t, <<"w","h","i","l","e","(">>) THEN "while"
    ELSE IF cir_starts_with(t, <<"i","f"," ">>) \/ cir_starts_with(t, <<"i","f","(">>)
         THEN "if"
    ELSE IF t = <<"}">> THEN "block_close"
    ELSE IF cir_starts_with(t, <<"v","a","l","i","d","a","t","e","(">>) THEN "validate"
    ELSE IF strstr(t, <<":","=">>) # 0 THEN "assign"
    ELSE IF t = <<"{">> THEN "open_brace"
    ELSE "unknown"

\* the two computed once for every line of the input alphabet
TrimmedOf == [l \in AllLines |-> cir_trim_left(LineBuf(l))]

ClassOf == [l \in AllLines |-> Classify(TrimmedOf[l])]

\* const char* trimmed = cir_trim_left(line_buf), for the line p points at
trimmed == TrimmedOf[source[p]]

\* the dispatch as it would be if block openers were looked for first
Branch_openers_first ==
    IF trimmed = <<>> THEN "blank"
    ELSE IF ClassOf[source[p]] \in {"span_start", "type_start", "policy"}
         THEN ClassOf[source[p]]
    ELSE IF in_span_block THEN "in_span"
    ELSE IF in_type_block THEN "in_type"
    ELSE IF in_policy_block THEN "in_policy"
    ELSE ClassOf[source[p]]

\* which branch of the loop body the current line takes
Branch ==
    IF trimmed = <<>> THEN "blank"
    ELSE IF in_span_block THEN "in_span"
    ELSE IF in_type_block THEN "in_type"
    ELSE IF in_policy_block THEN "in_policy"
    ELSE ClassOf[source[p]]

\* while (*p): a line is left to read
Scanning(b) == pc = "scan" /\ p <= Len(source) /\ Branch = b

\* line_num++ and the advance of p, with the line's fate recorded
Advance(f) ==
    /\ line_num' = line_num + 1
    /\ p' = NextP(p)
    /\ fate' = Append(fate, f)
    /\ UNCHANGED emitVars

\* the fresh node as it would be if it took the number of the line before
NewNode_previous_line(kind) == [ZeroNode EXCEPT !.kind = kind, !.source_line = line_num]

\* a fresh node of the normal classification: zeroed, source_line set
NewNode(kind) == [ZeroNode EXCEPT !.kind = kind, !.source_line = line_num + 1]

\* commit one node made from the current line and go on
CommitLine(node) ==
    /\ prog' = [prog EXCEPT !.nodes = COMMIT(prog.nodes, node)]
    /\ attempts' = Append(attempts, node)
    /\ Advance("commit")

\* the entry as it would be if consensus_ok were set before the scan
LinkEnter_preset ==
    /\ pc = "call"
    /\ pc' = "scan"
    /\ prog' = [ZeroProgram EXCEPT !.mode = default_mode, !.consensus_ok = TRUE]
    /\ UNCHANGED << source, default_mode, result, linkLocals, line_num, p,
                    attempts, fate >>
    /\ UNCHANGED emitVars

\* the entry of rift_link: calloc succeeded, prog->mode = mode
LinkEnter ==
    /\ pc = "call"
    /\ pc' = "scan"
    /\ prog' = [ZeroProgram EXCEPT !.mode = default_mode, !.consensus_ok = FALSE]
    /\ UNCHANGED << source, default_mode, result, linkLocals, line_num, p,
                    attempts, fate >>
    /\ UNCHANGED emitVars

\* calloc returned NULL
LinkAllocFail ==
    /\ pc = "call"
    /\ pc' = "done"
    /\ result' = "NULL"
    /\ UNCHANGED << source, default_mode, prog, linkLocals, line_num, p,
                    attempts, fate >>
    /\ UNCHANGED emitVars

\* if (!*trimmed) continue
LinkBlank ==
    /\ Scanning("blank")
    /\ Advance("blank")
    /\ UNCHANGED << source, default_mode, pc, result, prog, linkLocals, attempts >>

\* inside a span block: "bytes:" sets the size, a '}' commits the span
LinkInSpan ==
    /\ Scanning("in_span")
    /\ LET pend == IF cir_starts_with(trimmed, <<"b","y","t","e","s",":">>)
                   THEN [pending EXCEPT !.span_bytes = atoi(cir_trim_left(Drop(trimmed, 6)))]
                   ELSE pending
       IN  IF strchr(trimmed, "}") # 0
           THEN LET node == [pend EXCEPT !.source_line = line_num + 1]
                IN  /\ CommitLine(node)
                    /\ seen_span' = TRUE
                    /\ in_span_block' = FALSE
                    /\ pending' = ZeroNode
           ELSE /\ pending' = pend
                /\ Advance("block")
                /\ UNCHANGED << prog, attempts, seen_span, in_span_block >>
    /\ UNCHANGED << source, default_mode, pc, result, in_type_block,
                    in_policy_block, block_depth, pending_field_count,
                    declared_vars >>

\* the fix-up as it would be if it flagged every field behind the last CIR_TYPE_DEF
MarkLastField_every(nodes) ==
    LET D == {i \in 1..Len(nodes) : nodes[i].kind = "CIR_TYPE_DEF"}
        d == IF D = {} THEN 0 ELSE MaxOf(D)
    IN  [i \in 1..Len(nodes) |->
           IF i > d /\ nodes[i].kind = "CIR_TYPE_FIELD"
           THEN [nodes[i] EXCEPT !.is_last_field = TRUE] ELSE nodes[i]]

\* the backward walk that flags the last CIR_TYPE_FIELD, stopping at CIR_TYPE_DEF
MarkLastField(nodes) ==
    LET I == {i \in 1..Len(nodes) : nodes[i].kind \in {"CIR_TYPE_FIELD", "CIR_TYPE_DEF"}}
    IN  IF I = {} THEN nodes
        ELSE IF nodes[MaxOf(I)].kind = "CIR_TYPE_FIELD"
             THEN [nodes EXCEPT ![MaxOf(I)].is_last_field = TRUE]
             ELSE nodes

\* "field_name: FIELD_TYPE" parsed into a CIR_TYPE_FIELD node
FieldNode(t, colon, ln) ==
    LET fname == cir_trim_right(SubSeq(t, 1, Min2(colon - 1, RIFT_CIR_MAX_STR - 1)))
        ftype == cir_trim_left(Drop(t, colon))
        ftbuf == cir_trim_right(cir_safe_copy(ftype, SHORT_STR))
        ftcut == IF Len(ftbuf) > 0 /\ ftbuf[Len(ftbuf)] = ","
                 THEN SubSeq(ftbuf, 1, Len(ftbuf) - 1) ELSE ftbuf
    IN  [ZeroNode EXCEPT !.kind = "CIR_TYPE_FIELD", !.source_line = ln,
                         !.field_name = cir_safe_copy(fname, RIFT_CIR_MAX_STR),
                         !.field_type = cir_safe_copy(ftcut, SHORT_STR)]

\* inside a type block: a '}' closes it, a line with ':' commits a field
LinkInType ==
    /\ Scanning("in_type")
    /\ IF strchr(trimmed, "}") # 0
       THEN /\ prog' = [prog EXCEPT !.nodes =
                          IF Len(prog.nodes) > 0 /\ pending_field_count > 0
                          THEN MarkLastField(prog.nodes) ELSE prog.nodes]
            /\ in_type_block' = FALSE
            /\ pending_field_count' = 0
            /\ pending' = ZeroNode
            /\ Advance("block")
            /\ UNCHANGED attempts
       ELSE IF strchr(trimmed, ":") # 0
            THEN /\ CommitLine(FieldNode(trimmed, strchr(trimmed, ":"), line_num + 1))
                 /\ pending_field_count' = pending_field_count + 1
                 /\ UNCHANGED << in_type_block, pending >>
            ELSE /\ Advance("block")
                 /\ UNCHANGED << prog, attempts, in_type_block,
                                 pending_field_count, pending >>
    /\ UNCHANGED << source, default_mode, pc, result, seen_span, in_span_block,
                    in_policy_block, block_depth, declared_vars >>

\* inside a policy block: the body is consumed, a '}' ends it
LinkInPolicy ==
    /\ Scanning("in_policy")
    /\ in_policy_block' = (strchr(trimmed, "}") = 0)
    /\ Advance("block")
    /\ UNCHANGED << source, default_mode, pc, result, prog, attempts, seen_span,
                    in_span_block, in_type_block, block_depth, pending,
                    pending_field_count, declared_vars >>

LinkComment ==
    /\ Scanning("comment")
    /\ CommitLine([NewNode("CIR_COMMENT") EXCEPT
                     !.text = cir_strip_comment_prefix(trimmed, RIFT_CIR_MAX_STR)])
    /\ UNCHANGED << source, default_mode, pc, result, linkLocals >>

\* the mode word of a "!govern" line: cut at the first ' ' and the first '/'
GovernWord(t) ==
    LET mbuf  == cir_safe_copy(cir_trim_left(Drop(t, 7)), SHORT_STR)
        cut1  == CutAt(mbuf, strchr(mbuf, " "))
        cut2  == CutAt(cut1, strchr(cut1, "/"))
    IN  cir_trim_right(cut2)

\* the mode selection as it would be with quantum and hybrid exchanged
GovernMode_swapped(mbuf) ==
    IF mbuf = <<"q","u","a","n","t","u","m">> THEN "RIFT_MODE_HYBRID"
    ELSE IF mbuf = <<"h","y","b","r","i","d">> THEN "RIFT_MODE_QUANTUM"
    ELSE "RIFT_MODE_CLASSICAL"

\* the mode a "!govern" word selects
GovernMode(mbuf) ==
    IF mbuf = <<"q","u","a","n","t","u","m">> THEN "RIFT_MODE_QUANTUM"
    ELSE IF mbuf = <<"h","y","b","r","i","d">> THEN "RIFT_MODE_HYBRID"
    ELSE "RIFT_MODE_CLASSICAL"

LinkGovern ==
    /\ Scanning("govern")
    /\ LET mbuf == GovernWord(trimmed)
           node == [NewNode("CIR_GOVERN") EXCEPT !.mode = cir_safe_copy(mbuf, SHORT_STR)]
       IN  /\ prog' = [prog EXCEPT !.mode = GovernMode(mbuf),
                                   !.nodes = COMMIT(prog.nodes, node)]
           /\ attempts' = Append(attempts, node)
           /\ Advance("commit")
    /\ UNCHANGED << source, default_mode, pc, result, linkLocals >>

\* "align span<": start accumulating; nothing is committed yet
LinkSpanStart ==
    /\ Scanning("span_start")
    /\ pending' = [ZeroNode EXCEPT !.kind = "CIR_SPAN",
                     !.span_kind = cir_extract_span_kind(trimmed, SHORT_STR),
                     !.span_bytes = 4096]
    /\ in_span_block' = TRUE
    /\ Advance("block")
    /\ UNCHANGED << source, default_mode, pc, result, prog, attempts, seen_span,
                    in_type_block, in_policy_block, block_depth,
                    pending_field_count, declared_vars >>

\* the consensus check as it would be if it never fired
ConsensusViolated_never(seen) == FALSE

\* if (!seen_span): the consensus check of the type and assignment branches
ConsensusViolated(seen) == ~seen

\* return prog from inside the loop: consensus_ok is still false
LinkAbort(what) ==
    /\ prog' = [prog EXCEPT !.error_msg = ErrorMsg(line_num + 1, what)]
    /\ pc' = "done"
    /\ result' = "prog"
    /\ Advance("abort")
    /\ UNCHANGED << attempts, linkLocals >>

\* "type Name = {": the name between "type " and '='
TypeDefNode(t, ln) ==
    LET name_start == Drop(t, 5)
        eq   == strchr(name_start, "=")
        tbuf == cir_trim_right(SubSeq(name_start, 1, Min2(eq - 1, RIFT_CIR_MAX_STR - 1)))
    IN  [ZeroNode EXCEPT !.kind = "CIR_TYPE_DEF", !.source_line = ln,
                         !.type_name = cir_safe_copy(tbuf, RIFT_CIR_MAX_STR)]

LinkTypeStart ==
    /\ Scanning("type_start")
    /\ IF ConsensusViolated(seen_span)
       THEN LinkAbort(TYPE_BEFORE_SPAN)
       ELSE /\ CommitLine(TypeDefNode(trimmed, line_num + 1))
            /\ in_type_block' = (strchr(trimmed, "}") = 0)
            /\ pending_field_count' = 0
            /\ UNCHANGED << pc, result, seen_span, in_span_block, in_policy_block,
                            block_depth, pending, declared_vars >>
    /\ UNCHANGED << source, default_mode >>

\* "policy_fn on name {": the name up to the '{'
PolicyNode(t, ln) ==
    LET pbuf == cir_safe_copy(cir_trim_left(Drop(t, 12)), RIFT_CIR_MAX_STR)
        cut  == cir_trim_right(CutAt(pbuf, strchr(pbuf, "{")))
    IN  [ZeroNode EXCEPT !.kind = "CIR_POLICY", !.source_line = ln,
                         !.policy_name = cir_safe_copy(cut, RIFT_CIR_MAX_STR)]

LinkPolicy ==
    /\ Scanning("policy")
    /\ CommitLine(PolicyNode(trimmed, line_num + 1))
    /\ in_policy_block' = (strchr(trimmed, "}") = 0)
    /\ UNCHANGED << source, default_mode, pc, result, seen_span, in_span_block,
                    in_type_block, block_depth, pending, pending_field_count,
                    declared_vars >>

LinkWhile ==
    /\ Scanning("while")
    /\ CommitLine([NewNode("CIR_WHILE") EXCEPT
                     !.condition = cir_extract_parens(trimmed, RIFT_CIR_MAX_STR)])
    /\ block_depth' = block_depth + 1
    /\ UNCHANGED << source, default_mode, pc, result, seen_span, in_span_block,
                    in_type_block, in_policy_block, pending, pending_field_count,
                    declared_vars >>

LinkIf ==
    /\ Scanning("if")
    /\ CommitLine([NewNode("CIR_IF") EXCEPT
                     !.condition = cir_extract_parens(trimmed, RIFT_CIR_MAX_STR)])
    /\ block_depth' = block_depth + 1
    /\ UNCHANGED << source, default_mode, pc, result, seen_span, in_span_block,
                    in_type_block, in_policy_block, pending, pending_field_count,
                    declared_vars >>

\* the depth test as it would be if every "}" closed a block
CloseCommits_always(depth) == TRUE

\* if (block_depth > 0): the "}" closes an open block
CloseCommits(depth) == depth > 0

\* a lone "}": closes a while/if block, ignored at depth 0
LinkBlockClose ==
    /\ Scanning("block_close")
    /\ IF CloseCommits(block_depth)
       THEN /\ CommitLine(NewNode("CIR_BLOCK_CLOSE"))
            /\ block_depth' = block_depth - 1
       ELSE /\ Advance("ignored")
            /\ UNCHANGED << prog, attempts, block_depth >>
    /\ UNCHANGED << source, default_mode, pc, result, seen_span, in_span_block,
                    in_type_block, in_policy_block, pending, pending_field_count,
                    declared_vars >>

\* the argument of validate(...), a trailing ')' stripped
ValidateArg(t) ==
    LET arg == cir_extract_parens(t, RIFT_CIR_MAX_STR)
    IN  IF Len(arg) > 0 /\ arg[Len(arg)] = ")" THEN SubSeq(arg, 1, Len(arg) - 1) ELSE arg

LinkValidate ==
    /\ Scanning("validate")
    /\ CommitLine([NewNode("CIR_VALIDATE") EXCEPT !.validate_arg = ValidateArg(trimmed)])
    /\ UNCHANGED << source, default_mode, pc, result, linkLocals >>

\* the name left of ":="
AssignVar(t) ==
    LET op   == strstr(t, <<":","=">>)
        vbuf == cir_trim_right(SubSeq(t, 1, Min2(op - 1, RIFT_CIR_MAX_STR - 1)))
    IN  cir_safe_copy(vbuf, RIFT_CIR_MAX_STR)

\* the expression right of ":=", a trailing "/*" or "//" comment stripped
AssignExpr(t) ==
    LET op    == strstr(t, <<":","=">>)
        ebuf  == cir_safe_copy(cir_trim_left(Drop(t, op + 1)), RIFT_CIR_MAX_STR)
        c1    == strstr(ebuf, <<"/","*">>)
        e1    == IF c1 # 0 THEN cir_trim_right(CutAt(ebuf, c1)) ELSE ebuf
        c2    == strstr(e1, <<"/","/">>)
        e2    == IF c2 # 0 THEN cir_trim_right(CutAt(e1, c2)) ELSE e1
    IN  cir_safe_copy(e2, RIFT_CIR_MAX_STR)

\* node.is_first_use = !cir_var_seen(declared_vars, var_count, node.var_name)
IsFirstUse(dvars, name) == ~cir_var_seen(dvars, name)

\* the name is recorded when it is a first use and the table has room
RecordVar(dvars, name) ==
    IF IsFirstUse(dvars, name) /\ Len(dvars) < RIFT_CIR_MAX_VARS
    THEN Append(dvars, cir_safe_copy(name, RIFT_CIR_MAX_STR))
    ELSE dvars

LinkAssign ==
    /\ Scanning("assign")
    /\ IF ConsensusViolated(seen_span)
       THEN LinkAbort(ASSIGN_BEFORE_SPAN)
       ELSE LET name == AssignVar(trimmed)
                node == [NewNode("CIR_ASSIGN") EXCEPT
                           !.var_name = name,
                           !.expr = AssignExpr(trimmed),
                           !.is_first_use = IsFirstUse(declared_vars, name)]
            IN  /\ CommitLine(node)
                /\ declared_vars' = RecordVar(declared_vars, name)
                /\ UNCHANGED << pc, result, seen_span, in_span_block, in_type_block,
                                in_policy_block, block_depth, pending,
                                pending_field_count >>
    /\ UNCHANGED << source, default_mode >>

\* a lone "{": one block deeper, no node
LinkOpenBrace ==
    /\ Scanning("open_brace")
    /\ block_depth' = block_depth + 1
    /\ Advance("ignored")
    /\ UNCHANGED << source, default_mode, pc, result, prog, attempts, seen_span,
                    in_span_block, in_type_block, in_policy_block, pending,
                    pending_field_count, declared_vars >>

\* the text as it would be if the whole line were kept
UnknownText_whole(t) == t

\* cir_safe_copy(node.text, trimmed, sizeof(node.text))
UnknownText(t) == cir_safe_copy(t, RIFT_CIR_MAX_STR)

LinkUnknown ==
    /\ Scanning("unknown")
    /\ CommitLine([NewNode("CIR_UNKNOWN") EXCEPT !.text = UnknownText(trimmed)])
    /\ UNCHANGED << source, default_mode, pc, result, linkLocals >>

\* the loop ended: prog->consensus_ok = true; return prog
LinkReturn ==
    /\ pc = "scan"
    /\ p > Len(source)
    /\ prog' = [prog EXCEPT !.consensus_ok = TRUE]
    /\ pc' = "done"
    /\ result' = "prog"
    /\ UNCHANGED << source, default_mode, linkLocals, line_num, p, attempts, fate >>
    /\ UNCHANGED emitVars

LinkNext ==
    \/ LinkEnter \/ LinkAllocFail \/ LinkBlank \/ LinkInSpan \/ LinkInType
    \/ LinkInPolicy \/ LinkComment \/ LinkGovern \/ LinkSpanStart
    \/ LinkTypeStart \/ LinkPolicy \/ LinkWhile \/ LinkIf \/ LinkBlockClose
    \/ LinkValidate \/ LinkAssign \/ LinkOpenBrace \/ LinkUnknown \/ LinkReturn

\* nothing recorded yet of a first run
NoFirst ==
    [ result |-> "none", prog |-> ZeroProgram, target |-> "none",
      emit_ret |-> "none", out |-> << >>, err |-> << >> ]

\* rift_link and rift_codec_emit called by a caller other than the driver
NoDriver ==
    [ pc |-> "none", target |-> "none", file |-> "unopened", emits |-> 0,
      frees |-> 0, ret |-> "none" ]

\* the state before rift_link's first statement
LinkStart ==
    /\ pc = "call"
    /\ result = "none"
    /\ prog = ZeroProgram
    /\ seen_span = FALSE
    /\ in_span_block = FALSE
    /\ in_type_block = FALSE
    /\ in_policy_block = FALSE
    /\ block_depth = 0
    /\ line_num = 0
    /\ p = 1
    /\ pending = ZeroNode
    /\ pending_field_count = 0
    /\ declared_vars = <<>>
    /\ attempts = <<>>
    /\ fate = <<>>
    /\ target = "none"
    /\ epc = "idle"
    /\ emit_ret = "none"
    /\ out = <<>>
    /\ err = <<>>
    /\ indent_depth = 0
    /\ ei = 1
    /\ sink_error = FALSE
    /\ run = 1
    /\ first = NoFirst

\* the inputs drawn: a general source with any default mode, or a source of
\* the capacity, policy, text or type family
Init ==
    /\ \/ source \in GeneralSources /\ default_mode \in Modes
       \/ source \in LongSources /\ default_mode = "RIFT_MODE_CLASSICAL"
       \/ source \in PolicySources /\ default_mode = "RIFT_MODE_CLASSICAL"
       \/ source \in TextSources /\ default_mode = "RIFT_MODE_CLASSICAL"
       \/ source \in TypeSources /\ default_mode = "RIFT_MODE_CLASSICAL"
    /\ sink_fail_at = 0
    /\ LinkStart
    /\ drv = NoDriver

\* the inputs of the short family
InitShort ==
    /\ source \in ShortSources
    /\ default_mode = "RIFT_MODE_CLASSICAL"
    /\ sink_fail_at = 0
    /\ LinkStart
    /\ drv = NoDriver

SpecLink == Init /\ [][LinkNext]_vars

(***************************************************************************)
(* Phase 2: rift_codec_emit                                                *)
(*                                                                         *)
(* A write is recorded as the fprintf call made: its format string and its *)
(* arguments, each argument as text.                                       *)
(***************************************************************************)

Targets ==
    { "RIFT_TARGET_C", "RIFT_TARGET_JS", "RIFT_TARGET_GO", "RIFT_TARGET_LUA",
      "RIFT_TARGET_PYTHON", "RIFT_TARGET_WAT" }

\* one fprintf(stream, fmt, args...)
Chunk(fmt, args) == [ fmt |-> fmt, args |-> args ]

DigitChar(d) == << "0", "1", "2", "3", "4", "5", "6", "7", "8", "9" >>[d + 1]

\* the text %d, %ld and %u print
RECURSIVE Itoa(_)
Itoa(n) ==
    IF n < 0 THEN << "-" >> \o Itoa(0 - n)
    ELSE IF n < 10 THEN << DigitChar(n) >>
    ELSE Itoa(n \div 10) \o << DigitChar(n % 10) >>

\* n copies of the character c
Rep(c, n) == [i \in 1..n |-> c]

\* the table as it would be without its STRING row
cir_go_type_no_string(rift_type) ==
    IF rift_type = <<"I","N","T">> THEN <<"i","n","t","3","2">>
    ELSE IF rift_type = <<"F","L","O","A","T">> THEN <<"f","l","o","a","t","6","4">>
    ELSE <<"i","n","t","e","r","f","a","c","e","{","}">>

\* the Go type a field-type token is rendered as
cir_go_type(rift_type) ==
    IF rift_type = <<"I","N","T">> THEN <<"i","n","t","3","2">>
    ELSE IF rift_type = <<"F","L","O","A","T">> THEN <<"f","l","o","a","t","6","4">>
    ELSE IF rift_type = <<"S","T","R","I","N","G">> THEN <<"s","t","r","i","n","g">>
    ELSE <<"i","n","t","e","r","f","a","c","e","{","}">>

cir_comment_prefix(t) ==
    CASE t = "RIFT_TARGET_JS"     -> <<"/","/">>
      [] t = "RIFT_TARGET_PYTHON" -> <<"#">>
      [] t = "RIFT_TARGET_GO"     -> <<"/","/">>
      [] t = "RIFT_TARGET_LUA"    -> <<"-","-">>
      [] t = "RIFT_TARGET_WAT"    -> <<";",";">>
      [] OTHER                    -> <<"/","/">>

\* mode_str of rift_codec_emit and codec_emit_wat
ModeStr(m) ==
    IF m = "RIFT_MODE_QUANTUM" THEN <<"q","u","a","n","t","u","m">>
    ELSE IF m = "RIFT_MODE_HYBRID" THEN <<"h","y","b","r","i","d">>
    ELSE <<"c","l","a","s","s","i","c","a","l">>

\* the fprintf of codec_emit_header, none for a target without a header
codec_emit_header(t, mode_str) ==
    CASE t = "RIFT_TARGET_JS" ->
           << Chunk("'use strict';\n/* Generated by RIFTLang v1.0.0 - %s mode */\nconst rift = require('./bindings/node-riftlang/rift_binding.cjs');\n\n",
                    << mode_str >>) >>
      [] t = "RIFT_TARGET_PYTHON" ->
           << Chunk("# -*- coding: utf-8 -*-\n# Generated by RIFTLang v1.0.0 - %s mode\nimport sys, os\nsys.path.insert(0, os.path.join(os.path.dirname(os.path.abspath(__file__)),\n                'bindings', 'pyriftlang'))\nimport rift_binding as rift\n\n",
                    << mode_str >>) >>
      [] t = "RIFT_TARGET_GO" ->
           << Chunk("// Generated by RIFTLang v1.0.0 - %s mode\npackage main\n\nimport \"fmt\"\n\nfunc main() {\n",
                    << mode_str >>) >>
      [] t = "RIFT_TARGET_LUA" ->
           << Chunk("-- Generated by RIFTLang v1.0.0 - %s mode\nlocal rift = dofile('bindings/lua-riftlang/rift_binding.lua')\n\n",
                    << mode_str >>) >>
      [] t = "RIFT_TARGET_WAT" ->
           << Chunk(";; Generated by RIFTLang v1.0.0 - %s mode\n(module\n  (import \"rift\" \"validate\" (func $rift_validate (param i32) (result i32)))\n  (memory (export \"memory\") 1)\n  (func $main (export \"main\")\n",
                    << mode_str >>) >>
      [] OTHER -> << >>

\* the fprintf of codec_emit_footer, none for a target without a footer
codec_emit_footer(t) ==
    CASE t = "RIFT_TARGET_GO" ->
           << Chunk("\t_ = fmt.Sprintf  // suppress unused import\n}\n", << >>) >>
      [] t = "RIFT_TARGET_WAT" -> << Chunk("  )\n)\n", << >>) >>
      [] OTHER -> << >>

\* indent_str of codec_emit_node: tabs for Go (one more than the depth, at most
\* 15), four spaces a level for the others (at most 63 characters)
IndentStr(t, depth) ==
    IF depth > 0 \/ t = "RIFT_TARGET_GO"
    THEN IF t = "RIFT_TARGET_GO"
         THEN Rep("\t", Min2(depth + 1, 15))
         ELSE Rep(" ", Min2(depth * 4, 63))
    ELSE << >>

\* close_indent of the CIR_BLOCK_CLOSE case, d the depth already decremented
CloseIndent(t, d) ==
    IF t = "RIFT_TARGET_GO" THEN Rep("\t", Min2(d + 1, 15))
    ELSE IF t # "RIFT_TARGET_PYTHON" THEN Rep(" ", Min2(d * 4, 63))
    ELSE << >>

\* the depth of the closing line as it would be if it were read before the
\* decrement
CloseDepth_late(depth) == depth

\* if (*indent_depth > 0) (*indent_depth)--; int d = *indent_depth
CloseDepth(depth) == IF depth > 0 THEN depth - 1 ELSE depth

\* *indent_depth after codec_emit_node(n)
NodeDepth(n, depth) ==
    IF n.kind \in {"CIR_WHILE", "CIR_IF"} THEN depth + 1
    ELSE IF n.kind = "CIR_BLOCK_CLOSE" /\ depth > 0 THEN depth - 1
    ELSE depth

\* the CIR_ASSIGN case as it would be if Lua were handled like Python
emit_assign_lua_plain(t, n, ind) ==
    IF t \in {"RIFT_TARGET_PYTHON", "RIFT_TARGET_LUA"}
    THEN << Chunk("%s%s = %s\n", << ind, n.var_name, n.expr >>) >>
    ELSE IF t = "RIFT_TARGET_JS"
    THEN IF n.is_first_use
         THEN << Chunk("%slet %s = %s;\n", << ind, n.var_name, n.expr >>) >>
         ELSE << Chunk("%s%s = %s;\n", << ind, n.var_name, n.expr >>) >>
    ELSE IF t = "RIFT_TARGET_GO"
    THEN IF n.is_first_use
         THEN << Chunk("%s%s := %s\n", << ind, n.var_name, n.expr >>) >>
         ELSE << Chunk("%s%s = %s\n", << ind, n.var_name, n.expr >>) >>
    ELSE << >>

\* the CIR_ASSIGN case of codec_emit_node, ind the indentation prefix
emit_assign(t, n, ind) ==
    IF t \in {"RIFT_TARGET_PYTHON", "RIFT_TARGET_LUA"}
    THEN IF t = "RIFT_TARGET_LUA" /\ n.is_first_use
         THEN << Chunk("%slocal %s = %s\n", << ind, n.var_name, n.expr >>) >>
         ELSE << Chunk("%s%s = %s\n", << ind, n.var_name, n.expr >>) >>
    ELSE IF t = "RIFT_TARGET_JS"
    THEN IF n.is_first_use
         THEN << Chunk("%slet %s = %s;\n", << ind, n.var_name, n.expr >>) >>
         ELSE << Chunk("%s%s = %s;\n", << ind, n.var_name, n.expr >>) >>
    ELSE IF t = "RIFT_TARGET_GO"
    THEN IF n.is_first_use
         THEN << Chunk("%s%s := %s\n", << ind, n.var_name, n.expr >>) >>
         ELSE << Chunk("%s%s = %s\n", << ind, n.var_name, n.expr >>) >>
    ELSE << >>

\* the fprintf calls of codec_emit_node(out, t, n, &depth), in order
codec_emit_node(t, n, depth) ==
    LET cpfx == cir_comment_prefix(t)
        is_python == t = "RIFT_TARGET_PYTHON"
        is_go  == t = "RIFT_TARGET_GO"
        is_lua == t = "RIFT_TARGET_LUA"
        is_js  == t = "RIFT_TARGET_JS"
        ind == IndentStr(t, depth)
    IN  CASE n.kind = "CIR_GOVERN" ->
               << Chunk("%s%s RIFT: %s mode\n", << ind, cpfx, n.mode >>) >>
          [] n.kind = "CIR_SPAN" ->
               << Chunk("%s%s rift: memory span (%s, %d bytes)\n",
                        << ind, cpfx, n.span_kind, Itoa(n.span_bytes) >>) >>
          [] n.kind = "CIR_TYPE_DEF" ->
               IF is_go
               THEN << Chunk("%stype %s struct {\n", << ind, n.type_name >>) >>
               ELSE << Chunk("%s%s type: %s\n", << ind, cpfx, n.type_name >>) >>
          [] n.kind = "CIR_TYPE_FIELD" ->
               IF is_go
               THEN << Chunk("%s\t%s %s\n",
                             << ind, n.field_name, cir_go_type(n.field_type) >>) >>
                    \o (IF n.is_last_field
                        THEN << Chunk("%s}\n\n", << ind >>) >> ELSE << >>)
               ELSE << >>
          [] n.kind = "CIR_ASSIGN" -> emit_assign(t, n, ind)
          [] n.kind = "CIR_POLICY" ->
               << Chunk("%s%s policy: %s\n", << ind, cpfx, n.policy_name >>) >>
          [] n.kind = "CIR_WHILE" ->
               IF is_python THEN << Chunk("%swhile %s:\n", << ind, n.condition >>) >>
               ELSE IF is_js THEN << Chunk("%swhile (%s) {\n", << ind, n.condition >>) >>
               ELSE IF is_go THEN << Chunk("%sfor %s {\n", << ind, n.condition >>) >>
               ELSE IF is_lua THEN << Chunk("%swhile %s do\n", << ind, n.condition >>) >>
               ELSE << >>
          [] n.kind = "CIR_IF" ->
               IF is_python THEN << Chunk("%sif %s:\n", << ind, n.condition >>) >>
               ELSE IF is_js THEN << Chunk("%sif (%s) {\n", << ind, n.condition >>) >>
               ELSE IF is_go THEN << Chunk("%sif %s {\n", << ind, n.condition >>) >>
               ELSE IF is_lua THEN << Chunk("%sif %s then\n", << ind, n.condition >>) >>
               ELSE << >>
          [] n.kind = "CIR_BLOCK_CLOSE" ->
               LET close_indent == CloseIndent(t, CloseDepth(depth))
               IN  IF is_python THEN << >>
                   ELSE IF is_js \/ is_go THEN << Chunk("%s}\n", << close_indent >>) >>
                   ELSE IF is_lua THEN << Chunk("%send\n", << close_indent >>) >>
                   ELSE << >>
          [] n.kind = "CIR_VALIDATE" ->
               IF is_python \/ is_lua
               THEN << Chunk("%srift.validate(%s)\n", << ind, n.validate_arg >>) >>
               ELSE IF is_js
               THEN << Chunk("%srift.validate('%s');\n", << ind, n.validate_arg >>) >>
               ELSE IF is_go
               THEN << Chunk("%sfmt.Printf(\"rift.validate: %%v\\n\", %s)\n",
                             << ind, n.validate_arg >>) >>
               ELSE << >>
          [] n.kind \in {"CIR_COMMENT", "CIR_UNKNOWN"} ->
               IF n.text # << >>
               THEN << Chunk("%s%s %s\n", << ind, cpfx, n.text >>) >>
               ELSE << >>

\* strtol(s, &endp, 10): white space, an optional sign, digits.  end is the
\* index endp points at (Len(s) + 1 for the terminating NUL); without a digit
\* nothing is converted and endp = s.
Strtol(s) ==
    LET t     == cir_trim_left(s)
        ws    == Len(s) - Len(t)
        neg   == t # << >> /\ Head(t) = "-"
        sign  == IF t # << >> /\ Head(t) \in {"-", "+"} THEN 1 ELSE 0
        d     == Drop(t, sign)
        nd    == IF \E i \in 1..Len(d) : ~IsDigit(d[i])
                 THEN MinOf({i \in 1..Len(d) : ~IsDigit(d[i])}) - 1
                 ELSE Len(d)
        mag   == atoi_digits(d, 0)
    IN  IF nd = 0 THEN [ val |-> 0, end |-> 1 ]
        ELSE [ val |-> IF neg THEN 0 - mag ELSE mag, end |-> ws + sign + nd + 1 ]

\* *endp == '\0' || isspace(*endp): the expression is taken as a numeric literal
IsNumericLiteral(expr) ==
    LET e == Strtol(expr).end
    IN  e > Len(expr) \/ IsSpace(expr[e])

\* pass 1 as it would be if it declared a local for every assignment
wat_local_every(n) ==
    IF n.kind = "CIR_ASSIGN"
    THEN << Chunk("    (local $%s i32)\n", << n.var_name >>) >>
    ELSE << >>

\* pass 1 of codec_emit_wat for node n: a local for a first-use assignment
wat_local(n) ==
    IF n.kind = "CIR_ASSIGN" /\ n.is_first_use
    THEN << Chunk("    (local $%s i32)\n", << n.var_name >>) >>
    ELSE << >>

\* depth after pass 2 of codec_emit_wat has handled node n
WatDepth(n, depth) ==
    IF n.kind \in {"CIR_WHILE", "CIR_IF"} THEN depth + 1
    ELSE IF n.kind = "CIR_BLOCK_CLOSE" /\ depth > 0 THEN depth - 1
    ELSE depth

\* pass 2 of codec_emit_wat for node n: the fprintf calls, in order
wat_body(n) ==
    CASE n.kind = "CIR_GOVERN" -> << Chunk("    ;; RIFT: %s mode\n", << n.mode >>) >>
      [] n.kind = "CIR_SPAN" ->
           << Chunk("    ;; rift: memory span (%s, %d bytes)\n",
                    << n.span_kind, Itoa(n.span_bytes) >>) >>
      [] n.kind = "CIR_TYPE_DEF" -> << Chunk("    ;; type: %s\n", << n.type_name >>) >>
      [] n.kind = "CIR_TYPE_FIELD" -> << >>
      [] n.kind = "CIR_ASSIGN" ->
           IF IsNumericLiteral(n.expr)
           THEN << Chunk("    (local.set $%s (i32.const %ld))\n",
                         << n.var_name, Itoa(Strtol(n.expr).val) >>) >>
           ELSE << Chunk("    ;; expr: %s = %s\n", << n.var_name, n.expr >>),
                   Chunk("    (local.set $%s (i32.const 0))\n", << n.var_name >>) >>
      [] n.kind = "CIR_POLICY" -> << Chunk("    ;; policy: %s\n", << n.policy_name >>) >>
      [] n.kind = "CIR_WHILE" -> << Chunk("    (block\n    (loop\n", << >>) >>
      [] n.kind = "CIR_IF" -> << Chunk("    (if (then\n", << >>) >>
      [] n.kind = "CIR_BLOCK_CLOSE" -> << Chunk("    ))\n", << >>) >>
      [] n.kind = "CIR_VALIDATE" ->
           << Chunk("    (call $rift_validate (local.get $%s))\n", << n.validate_arg >>) >>
      [] n.kind \in {"CIR_COMMENT", "CIR_UNKNOWN"} ->
           IF n.text # << >> THEN << Chunk("    ;; %s\n", << n.text >>) >> ELSE << >>

\* the emit precondition as it would be if the flag were not looked at
EmitRefuses_never(pr) == FALSE

\* if (!prog->consensus_ok): emission is refused
EmitRefuses(pr) == ~pr.consensus_ok

\* how many of n fprintf calls reach a sink that holds `have` chunks and fails
\* from call number fail_at on
Accepted(have, n, fail_at) ==
    IF fail_at = 0 THEN n
    ELSE Min2(n, IF fail_at - 1 > have THEN fail_at - 1 - have ELSE 0)

\* fprintf(out, ...) for each of chunks, in order, the return values ignored: a
\* failed call writes nothing and leaves the stream's error indicator set
SinkWrite(chunks) ==
    LET n == Accepted(Len(out), Len(chunks), sink_fail_at)
    IN  /\ out' = out \o SubSeq(chunks, 1, n)
        /\ sink_error' = (sink_error \/ n < Len(chunks))

\* the loop test as it would be with the last node left out
LoopDone_early(i, count) == i >= count

\* !(i < prog->count), for the 1-based index i
LoopDone(i, count) == i > count

\* the node as it would be if the emitter cleared the flag it has rendered
NodeAfterEmit_consumed(n) == [n EXCEPT !.is_first_use = FALSE]

\* *n after codec_emit_node or a turn of codec_emit_wat: no field is assigned
NodeAfterEmit(n) == n

\* the depth as it would be if it were kept from one call to the next
StartDepth_static(d) == d

\* int indent_depth = 0 (int depth = 0 in codec_emit_wat)
StartDepth(d) == 0

\* the target argument: any target, and the first run's target in a second run
TargetArgs == IF run = 1 THEN Targets ELSE { first.target }

\* rift_codec_emit is called once rift_link has returned
EmitCallable == pc = "done" /\ epc = "idle"

\* if (!prog || !out) return false, for the NULL a failed rift_link returned
EmitNull ==
    /\ EmitCallable
    /\ result = "NULL"
    /\ \E t \in TargetArgs : target' = t
    /\ emit_ret' = "false"
    /\ epc' = "returned"
    /\ UNCHANGED << prog, linkRest, envVars, out, sink_error, err, indent_depth, ei >>

\* consensus failed: a message on stderr, return false
EmitReject ==
    /\ EmitCallable
    /\ result = "prog"
    /\ EmitRefuses(prog)
    /\ \E t \in TargetArgs : target' = t
    /\ err' = Append(err, Chunk("[rift_codec] consensus failed: %s\n",
                                << prog.error_msg >>))
    /\ emit_ret' = "false"
    /\ epc' = "returned"
    /\ UNCHANGED << prog, linkRest, envVars, out, sink_error, indent_depth, ei >>

\* a generic target: the header, then indent_depth = 0 and the node loop
EmitHeader ==
    /\ EmitCallable
    /\ result = "prog"
    /\ ~EmitRefuses(prog)
    /\ \E t \in TargetArgs \ {"RIFT_TARGET_WAT"} :
          /\ target' = t
          /\ SinkWrite(codec_emit_header(t, ModeStr(prog.mode)))
    /\ indent_depth' = StartDepth(indent_depth)
    /\ ei' = 1
    /\ epc' = "nodes"
    /\ UNCHANGED << prog, linkRest, envVars, emit_ret, err >>

\* one turn of the node loop: codec_emit_node(out, target, &prog->nodes[i], ...)
EmitNode ==
    /\ epc = "nodes"
    /\ ~LoopDone(ei, Len(prog.nodes))
    /\ SinkWrite(codec_emit_node(target, prog.nodes[ei], indent_depth))
    /\ indent_depth' = NodeDepth(prog.nodes[ei], indent_depth)
    /\ prog' = [prog EXCEPT !.nodes[ei] = NodeAfterEmit(prog.nodes[ei])]
    /\ ei' = ei + 1
    /\ UNCHANGED << linkRest, envVars, target, epc, emit_ret, err >>

\* the loop ended: the footer, return true
EmitFooter ==
    /\ epc = "nodes"
    /\ LoopDone(ei, Len(prog.nodes))
    /\ SinkWrite(codec_emit_footer(target))
    /\ emit_ret' = "true"
    /\ epc' = "returned"
    /\ UNCHANGED << prog, linkRest, envVars, target, err, indent_depth, ei >>

\* the WAT target: codec_emit_wat writes the header and starts pass 1
EmitWatHeader ==
    /\ EmitCallable
    /\ result = "prog"
    /\ ~EmitRefuses(prog)
    /\ "RIFT_TARGET_WAT" \in TargetArgs
    /\ target' = "RIFT_TARGET_WAT"
    /\ SinkWrite(codec_emit_header("RIFT_TARGET_WAT", ModeStr(prog.mode)))
    /\ ei' = 1
    /\ epc' = "wat_locals"
    /\ UNCHANGED << prog, linkRest, envVars, emit_ret, err, indent_depth >>

\* one turn of pass 1
EmitWatLocal ==
    /\ epc = "wat_locals"
    /\ ~LoopDone(ei, Len(prog.nodes))
    /\ SinkWrite(wat_local(prog.nodes[ei]))
    /\ ei' = ei + 1
    /\ UNCHANGED << prog, linkRest, envVars, target, epc, emit_ret, err,
                    indent_depth >>

\* pass 1 ended: depth = 0 and pass 2 starts
EmitWatBodyStart ==
    /\ epc = "wat_locals"
    /\ LoopDone(ei, Len(prog.nodes))
    /\ indent_depth' = StartDepth(indent_depth)
    /\ ei' = 1
    /\ epc' = "wat_body"
    /\ UNCHANGED << prog, linkRest, envVars, target, emit_ret, out, sink_error, err >>

\* one turn of pass 2
EmitWatBody ==
    /\ epc = "wat_body"
    /\ ~LoopDone(ei, Len(prog.nodes))
    /\ SinkWrite(wat_body(prog.nodes[ei]))
    /\ indent_depth' = WatDepth(prog.nodes[ei], indent_depth)
    /\ prog' = [prog EXCEPT !.nodes[ei] = NodeAfterEmit(prog.nodes[ei])]
    /\ ei' = ei + 1
    /\ UNCHANGED << linkRest, envVars, target, epc, emit_ret, err >>

\* pass 2 ended: the footer; rift_codec_emit returns true
EmitWatFooter ==
    /\ epc = "wat_body"
    /\ LoopDone(ei, Len(prog.nodes))
    /\ SinkWrite(codec_emit_footer("RIFT_TARGET_WAT"))
    /\ emit_ret' = "true"
    /\ epc' = "returned"
    /\ UNCHANGED << prog, linkRest, envVars, target, err, indent_depth, ei >>

EmitNext ==
    \/ EmitNull \/ EmitReject \/ EmitHeader \/ EmitNode \/ EmitFooter
    \/ EmitWatHeader \/ EmitWatLocal \/ EmitWatBodyStart \/ EmitWatBody
    \/ EmitWatFooter

Next == LinkNext \/ EmitNext

\* the inputs of the pipeline: a short source with any default mode or a
\* source of the variable family, and a sink that never fails or fails from
\* one of its first writes on; or a source of the nesting, the field, the
\* expression or the scope family and a sound sink
InitPipeline ==
    /\ \/ /\ \/ source \in ShortSources /\ default_mode \in Modes
             \/ source \in VarSources /\ default_mode = "RIFT_MODE_CLASSICAL"
          /\ sink_fail_at \in 0..MaxFailAt
       \/ /\ \/ source \in NestSources
             \/ source \in FieldSources
             \/ source \in ExprSources
             \/ source \in ScopeSources
          /\ default_mode = "RIFT_MODE_CLASSICAL"
          /\ sink_fail_at = 0
    /\ LinkStart
    /\ drv = NoDriver

\* rift_link, then rift_codec_emit on what it returned
Spec == InitPipeline /\ [][Next]_vars

\* the table as it would be if it were kept from one call to the next
FreshVars_static(dv) == dv

\* char declared_vars[..][..]; uint32_t var_count = 0: a table local to the call
FreshVars(dv) == << >>

\* the caller runs the pipeline a second time on the same source, default mode
\* and target, with a fresh sink
Rerun ==
    /\ epc = "returned"
    /\ run = 1
    /\ run' = 2
    /\ first' = [ result |-> result, prog |-> prog, target |-> target,
                  emit_ret |-> emit_ret, out |-> out, err |-> err ]
    /\ pc' = "call"
    /\ result' = "none"
    /\ prog' = ZeroProgram
    /\ seen_span' = FALSE
    /\ in_span_block' = FALSE
    /\ in_type_block' = FALSE
    /\ in_policy_block' = FALSE
    /\ block_depth' = 0
    /\ line_num' = 0
    /\ p' = 1
    /\ pending' = ZeroNode
    /\ pending_field_count' = 0
    /\ declared_vars' = FreshVars(declared_vars)
    /\ attempts' = << >>
    /\ fate' = << >>
    /\ epc' = "idle"
    /\ emit_ret' = "none"
    /\ out' = << >>
    /\ err' = << >>
    /\ sink_error' = FALSE
    /\ ei' = 1
    /\ UNCHANGED << source, default_mode, target, indent_depth, sink_fail_at, drv >>

NextTwice == Next \/ Rerun

\* the inputs of two runs: a short source, any default mode, a sound sink
InitTwice ==
    /\ source \in ShortSources
    /\ default_mode \in Modes
    /\ sink_fail_at = 0
    /\ LinkStart
    /\ drv = NoDriver

\* the pipeline run twice on the same inputs
SpecTwice == InitTwice /\ [][NextTwice]_vars


(***************************************************************************)
(* The driver: the non-C path of compile_rift_file (main.c)                *)
(*                                                                         *)
(* drv.pc is "link" from the call of rift_link until its result has been   *)
(* looked at, "emit" while rift_codec_emit runs on the opened file, and    *)
(* "returned" behind the return.  drv.frees counts the calls of            *)
(* rift_cir_program_free, drv.emits the calls of rift_codec_emit.  What    *)
(* the driver prints on stdout is left out.                                *)
(***************************************************************************)

\* the targets rift_detect_target sends down the link+codec path
CodecTargets == Targets \ { "RIFT_TARGET_C" }

\* the driver at its call of rift_link, with the target it detected
DriverEntry(t) ==
    [ pc |-> "link", target |-> t, file |-> "unopened", emits |-> 0,
      frees |-> 0, ret |-> "none" ]

\* the arguments of the "Cannot create" message: the file name and strerror(errno)
OUT_FILENAME == << "o", "u", "t" >>

STRERROR == << "e", "r", "r", "n", "o" >>

\* the free as it would be if it were left out
rift_cir_program_free_leak(frees) == frees

\* rift_cir_program_free(prog): free(prog), counted
rift_cir_program_free(frees) == frees + 1

\* the check as it would be if the flag were not looked at
DriverAccepts_always(pr) == TRUE

\* if (!prog->consensus_ok) ... else: the driver goes on to open the file
DriverAccepts(pr) == pr.consensus_ok

\* what a driver step outside rift_link and rift_codec_emit leaves alone
driverRest ==
    << linkVars, target, epc, emit_ret, out, indent_depth, ei, sink_error,
       sink_fail_at, run, first >>

\* rift_link(source, opts->mode) runs
DriverLink ==
    /\ drv.pc = "link"
    /\ LinkNext

\* if (!prog): a message, return false
DriverNoProgram ==
    /\ drv.pc = "link" /\ pc = "done" /\ result = "NULL"
    /\ err' = Append(err, Chunk("Error: CIR linker allocation failed\n", << >>))
    /\ drv' = [drv EXCEPT !.pc = "returned", !.ret = "false"]
    /\ UNCHANGED driverRest

\* if (!prog->consensus_ok): the linker's message, free, return false
DriverConsensusFailed ==
    /\ drv.pc = "link" /\ pc = "done" /\ result = "prog"
    /\ ~DriverAccepts(prog)
    /\ err' = Append(err, Chunk("Error: Consensus validation failed: %s\n",
                                << prog.error_msg >>))
    /\ drv' = [drv EXCEPT !.pc = "returned", !.ret = "false",
                          !.frees = rift_cir_program_free(@)]
    /\ UNCHANGED driverRest

\* fopen(out_filename, "w") returned NULL: a message, free, return false
DriverOpenFailed ==
    /\ drv.pc = "link" /\ pc = "done" /\ result = "prog"
    /\ DriverAccepts(prog)
    /\ err' = Append(err, Chunk("Error: Cannot create '%s': %s\n",
                                << OUT_FILENAME, STRERROR >>))
    /\ drv' = [drv EXCEPT !.pc = "returned", !.ret = "false",
                          !.frees = rift_cir_program_free(@)]
    /\ UNCHANGED driverRest

\* fopen succeeded: rift_codec_emit(prog, out_fp, target) is called
DriverOpen ==
    /\ drv.pc = "link" /\ pc = "done" /\ result = "prog"
    /\ DriverAccepts(prog)
    /\ drv' = [drv EXCEPT !.pc = "emit", !.file = "open", !.emits = @ + 1]
    /\ UNCHANGED << driverRest, err >>

\* rift_codec_emit runs, with the target the driver detected
DriverEmit ==
    /\ drv.pc = "emit"
    /\ EmitNext
    /\ target' = drv.target

\* rift_codec_emit returned: fclose, free, return ok
DriverFinish ==
    /\ drv.pc = "emit" /\ epc = "returned"
    /\ drv' = [drv EXCEPT !.pc = "returned", !.file = "closed",
                          !.frees = rift_cir_program_free(@), !.ret = emit_ret]
    /\ UNCHANGED << driverRest, err >>

DriverNext ==
    \/ DriverLink \/ DriverNoProgram \/ DriverConsensusFailed \/ DriverOpenFailed
    \/ DriverOpen \/ DriverEmit \/ DriverFinish

\* the inputs of the driver: a short source, any of the five targets, a sink
\* that never fails or fails from one of its first writes on
InitDriver ==
    /\ source \in ShortSources
    /\ default_mode = "RIFT_MODE_CLASSICAL"
    /\ sink_fail_at \in 0..MaxFailAt
    /\ LinkStart
    /\ drv \in { DriverEntry(t) : t \in CodecTargets }

\* compile_rift_file on its non-C path
SpecDriver == InitDriver /\ [][DriverNext]_vars

\* sequential code always takes its next step
SpecLinkFair == InitShort /\ [][LinkNext]_vars /\ WF_vars(LinkNext)

(***************************************************************************)
(* Properties of rift_link                                                 *)
(***************************************************************************)

\* rift_link has returned a Program
Returned == pc = "done" /\ result = "prog"

Nodes == prog.nodes

\* how many visited lines met fate f
FateCount(f) == Cardinality({i \in 1..Len(fate) : fate[i] = f})

IsKind(n, k) == n.kind = k

\* C1: in a Program returned with consensus_ok = true every TypeDef and every
\* Assign node has a Span node before it in the node sequence, also when the
\* source fills the node capacity.
C1_SpanPrecedesTypeAndAssign ==
    (Returned /\ prog.consensus_ok) =>
        \A i \in 1..Len(Nodes) :
            Nodes[i].kind \in {"CIR_TYPE_DEF", "CIR_ASSIGN"} =>
                \E j \in 1..(i - 1) : Nodes[j].kind = "CIR_SPAN"

\* a consensus-ok Program at capacity, nodes dropped, an Assign retained
C1_Witness ==
    /\ Returned /\ prog.consensus_ok
    /\ Len(attempts) > RIFT_CIR_MAX_NODES
    /\ \E i \in 1..Len(Nodes) : Nodes[i].kind = "CIR_ASSIGN"

\* line i of src is an assignment line or a type-definition opener that comes
\* before every "align span<" opener line
PrecedesEverySpanOpener(src, i) ==
    /\ ClassOf[src[i]] \in {"assign", "type_start"}
    /\ \A j \in 1..i : ClassOf[src[j]] # "span_start"

\* a multi-line policy block is open when line i of src is read; only meant for
\* lines with no span or type block before them
RECURSIVE InPolicyBody(_, _)
InPolicyBody(src, i) ==
    IF i = 1 THEN FALSE
    ELSE LET t == TrimmedOf[src[i - 1]]
         IN  IF t = <<>> THEN InPolicyBody(src, i - 1)
             ELSE IF InPolicyBody(src, i - 1) THEN strchr(t, "}") = 0
             ELSE ClassOf[src[i - 1]] = "policy" /\ strchr(t, "}") = 0

\* C2 as stated: a source in which an assignment line or a type opener line
\* precedes every span opener line links to consensus_ok = false.
C2_Original ==
    (Returned /\ \E i \in 1..Len(source) : PrecedesEverySpanOpener(source, i))
        => ~prog.consensus_ok

\* C2 (amended): the same, for an assignment or type opener line that does not
\* lie in the body of a policy block.
C2_OrderingOutsidePolicy ==
    (Returned /\ \E i \in 1..Len(source) :
                    /\ PrecedesEverySpanOpener(source, i)
                    /\ ~InPolicyBody(source, i))
        => ~prog.consensus_ok

\* a type opener behind a closed policy block, no span anywhere: rejected
C2_Witness ==
    /\ Returned /\ ~prog.consensus_ok
    /\ Len(source) = 3
    /\ ClassOf[source[1]] = "policy"
    /\ ClassOf[source[3]] = "type_start"
    /\ ~InPolicyBody(source, 3)

\* C3: a consensus violation on line L stops the pass there: consensus_ok is
\* false, the message carries L (1-based, blank lines counted) and the rule
\* broken, and every node comes from a line before L.
C3_ViolationStopsAtLine ==
    (Returned /\ ~prog.consensus_ok) =>
        LET L == p - 1
        IN  /\ L \in 1..Len(source)
            /\ Len(fate) = L /\ fate[L] = "abort"
            /\ \A i \in 1..(L - 1) : fate[i] # "abort"
            /\ ClassOf[source[L]] \in {"type_start", "assign"}
            /\ prog.error_msg.args = << L >>
            /\ prog.error_msg.fmt =
                 (IF ClassOf[source[L]] = "type_start"
                  THEN TYPE_BEFORE_SPAN ELSE ASSIGN_BEFORE_SPAN)
            /\ \A i \in 1..Len(Nodes) : Nodes[i].source_line \in 1..(L - 1)

\* a violation on line 3 or later, behind a blank line and a committed node
C3_Witness ==
    /\ Returned /\ ~prog.consensus_ok
    /\ line_num >= 3
    /\ FateCount("blank") > 0
    /\ Len(Nodes) > 0

\* C4: rift_codec_emit on a Program whose consensus_ok is false returns false
\* and writes nothing to the output sink, whatever the target: the emitter
\* never enters the header, the node loop or the footer, and the sink stays as
\* it was before the call (empty).
C4_RejectWritesNothing ==
    (result = "prog" /\ ~prog.consensus_ok) =>
        /\ out = << >>
        /\ epc \in {"idle", "returned"}
        /\ epc = "returned" => emit_ret = "false"

\* the emitter was called on a rejected Program that holds nodes, for the
\* two-pass target, and has returned after its message on stderr
C4_Witness ==
    /\ epc = "returned" /\ result = "prog" /\ ~prog.consensus_ok
    /\ Len(prog.nodes) > 0
    /\ target = "RIFT_TARGET_WAT"
    /\ emit_ret = "false"
    /\ Len(err) = 1

\* the targets rendered by the generic per-node renderer
GenericTargets ==
    { "RIFT_TARGET_JS", "RIFT_TARGET_PYTHON", "RIFT_TARGET_GO", "RIFT_TARGET_LUA" }

\* the rendering of nodes[i], nodes[i+1], ... in that order, each once, the
\* first at the given depth
RECURSIVE RenderFrom(_, _, _, _)
RenderFrom(t, nodes, i, depth) ==
    IF i > Len(nodes) THEN << >>
    ELSE codec_emit_node(t, nodes[i], depth)
           \o RenderFrom(t, nodes, i + 1, NodeDepth(nodes[i], depth))

\* C11: rift_codec_emit on a consensus-ok Program for a generic target returns
\* true, and when every write reached the sink the output is the target's
\* header, then the rendering of every node once in node order, then the
\* target's footer.
C11_HeaderNodesFooter ==
    (epc = "returned" /\ result = "prog" /\ prog.consensus_ok
       /\ target \in GenericTargets) =>
        /\ emit_ret = "true"
        /\ ~sink_error =>
             out = codec_emit_header(target, ModeStr(prog.mode))
                     \o RenderFrom(target, Nodes, 1, 0)
                     \o codec_emit_footer(target)

\* a Go emission of at least three nodes, a nested one among them, completed
C11_Witness ==
    /\ epc = "returned" /\ emit_ret = "true" /\ ~sink_error
    /\ target = "RIFT_TARGET_GO"
    /\ Len(Nodes) >= 3
    /\ \E i \in 1..Len(Nodes) : Nodes[i].kind \in {"CIR_WHILE", "CIR_IF"}
    /\ Len(out) >= 5

\* C12 as stated: when a write to the sink has failed during emission,
\* rift_codec_emit does not report success.
C12_SinkFailurePropagates ==
    (epc = "returned" /\ sink_error) => emit_ret = "false"

\* C13: no step of rift_codec_emit changes the Program: nodes, count, mode,
\* consensus_ok and error message stay as they were at the call, whatever the
\* target and whether the call returns true or false.
C13_ProgramUnchanged ==
    [][pc = "done" => prog' = prog]_vars

\* a completed emission of a Program that holds a first-use assignment
C13_Witness ==
    /\ epc = "returned" /\ emit_ret = "true"
    /\ target = "RIFT_TARGET_LUA"
    /\ \E i \in 1..Len(Nodes) : Nodes[i].kind = "CIR_ASSIGN" /\ Nodes[i].is_first_use

\* the kinds of a node sequence
Kinds(nodes) == [i \in 1..Len(nodes) |-> nodes[i].kind]

\* C14 (Scenario D) as stated: `while (x > 0) { x := x - 1 }` after a committed
\* span links to the nodes [Span, While, BlockClose], and emitting them leaves
\* the indent depth at 0 (1 after the While, 0 after the BlockClose).
C14_ScenarioD ==
    (epc = "returned" /\ emit_ret = "true"
       /\ source = << L_SPAN_OPEN, L_CLOSE, L_WHILE_ONE >>) =>
        /\ Kinds(Nodes) = << "CIR_SPAN", "CIR_WHILE", "CIR_BLOCK_CLOSE" >>
        /\ indent_depth = 0

\* both runs have returned from rift_codec_emit, and rift_link's allocation
\* went the same way in both
BothRunsEmitted == run = 2 /\ epc = "returned" /\ result = first.result

C17_TypeBeforeAssign ==
    (Returned /\ prog.consensus_ok) =>
        \A i, j \in 1..Len(Nodes) :
            (Nodes[i].kind = "CIR_ASSIGN" /\ Nodes[j].kind = "CIR_TYPE_DEF") => j < i

\* the accumulator state Normal: no block is open
Normal == ~in_span_block /\ ~in_type_block /\ ~in_policy_block

\* at most one of the three block flags is set
AtMostOneBlock ==
    /\ ~(in_span_block /\ in_type_block)
    /\ ~(in_span_block /\ in_policy_block)
    /\ ~(in_type_block /\ in_policy_block)

\* this step recognised a block opener: it set a block flag, started a pending
\* span, or handed a TypeDef or Policy node to COMMIT
OpenerRecognised ==
    \/ in_span_block' /\ ~in_span_block
    \/ in_type_block' /\ ~in_type_block
    \/ in_policy_block' /\ ~in_policy_block
    \/ /\ Len(attempts') = Len(attempts) + 1
       /\ attempts'[Len(attempts')].kind \in {"CIR_TYPE_DEF", "CIR_POLICY"}

\* C18: at every point of the pass at most one of in_span_block, in_type_block
\* and in_policy_block is set, and a step recognises a block opener only when
\* it starts in Normal state.
C18_BlockStatesExclusive ==
    [][AtMostOneBlock' /\ (OpenerRecognised => Normal)]_vars

\* inside a policy block, a span opener line and a type opener line already
\* consumed as its body
C18_Witness ==
    /\ pc = "scan" /\ in_policy_block
    /\ \E i \in 1..Len(fate) : fate[i] = "block" /\ ClassOf[source[i]] = "span_start"
    /\ \E i \in 1..Len(fate) : fate[i] = "block" /\ ClassOf[source[i]] = "type_start"

\* the BlockClose node made from the line being read
BlockCloseNode ==
    [ZeroNode EXCEPT !.kind = "CIR_BLOCK_CLOSE", !.source_line = line_num + 1]

\* C19: the block depth is never negative; a standalone "}" read in Normal
\* state at depth > 0 hands a BlockClose node to COMMIT (stored when there is
\* room) and decrements the depth, and at depth 0 it commits nothing and leaves
\* the depth and the node sequence as they were.
C19_DepthNeverNegative ==
    [][/\ block_depth' >= 0
       /\ Scanning("block_close") =>
            IF block_depth > 0
            THEN /\ block_depth' = block_depth - 1
                 /\ attempts' = Append(attempts, BlockCloseNode)
                 /\ Len(Nodes) < RIFT_CIR_MAX_NODES =>
                      prog'.nodes = Append(Nodes, BlockCloseNode)
            ELSE /\ block_depth' = block_depth
                 /\ attempts' = attempts
                 /\ prog' = prog]_vars

\* a "}" that closed a block and a later "}" that was ignored at depth 0
C19_Witness ==
    /\ block_depth = 0
    /\ \E i \in 1..Len(Nodes) : Nodes[i].kind = "CIR_BLOCK_CLOSE"
    /\ \E i \in 1..Len(fate) :
          /\ fate[i] = "ignored" /\ ClassOf[source[i]] = "block_close"
          /\ \E j \in 1..Len(Nodes) :
                Nodes[j].kind = "CIR_BLOCK_CLOSE" /\ Nodes[j].source_line < i

\* how many times the character c occurs in s
CountChar(s, c) == Cardinality({i \in 1..Len(s) : s[i] = c})

\* the brace depth of the block opened on line opener, after line j >= opener
RECURSIVE BraceDepthAfter(_, _, _)
BraceDepthAfter(src, opener, j) ==
    (IF j = opener THEN 0 ELSE BraceDepthAfter(src, opener, j - 1))
      + CountChar(src[j], "{") - CountChar(src[j], "}")

\* line i was recognised as the opener of a multi-line policy block
MultiLinePolicyOpener(i) ==
    /\ fate[i] = "commit"
    /\ ClassOf[source[i]] = "policy"
    /\ strchr(TrimmedOf[source[i]], "}") = 0

\* line j > i belongs to the policy block opened on line i: it is a line of
\* the body or the line of the closing delimiter that matches the opener
InPolicyBlockOf(i, j) ==
    \A k \in i..(j - 1) : BraceDepthAfter(source, i, k) > 0

\* C20 as stated: after a multi-line policy opener no line of the block, up to
\* and including its closing delimiter, produces a node or is classified in
\* Normal state: each is consumed as block interior (or skipped as blank).
C20_PolicyBodySilent ==
    \A i \in 1..Len(fate) :
        MultiLinePolicyOpener(i) =>
            \A j \in (i + 1)..Len(fate) :
                InPolicyBlockOf(i, j) => fate[j] \in {"block", "blank"}

\* the line being read is classified in Normal state and is not blank
NormalLine == pc = "scan" /\ p <= Len(source) /\ Normal /\ trimmed # << >>

\* the classes of the construct rules: comment, govern, span opener, type
\* opener, policy opener, while/if opener, standalone block close, validate
\* call, assignment
RuleClasses ==
    { "comment", "govern", "span_start", "type_start", "policy", "while", "if",
      "block_close", "validate", "assign" }

\* this step handed node n to COMMIT, and COMMIT stored it when there was room
Committed(n) ==
    /\ attempts' = Append(attempts, n)
    /\ prog'.nodes = IF Len(Nodes) < RIFT_CIR_MAX_NODES THEN Append(Nodes, n) ELSE Nodes

\* an Unknown node of the line being read with the given text, every other
\* field zero
UnknownNode(text) ==
    [ZeroNode EXCEPT !.kind = "CIR_UNKNOWN", !.source_line = line_num + 1,
                     !.text = text]

RECURSIVE FieldRunEnd(_, _)
FieldRunEnd(nodes, i) ==
    IF i < Len(nodes) /\ nodes[i + 1].kind = "CIR_TYPE_FIELD"
    THEN FieldRunEnd(nodes, i + 1) ELSE i

\* C22 as stated: in a Program returned with consensus_ok = true, every TypeDef
\* node that is followed by TypeField nodes of its block has exactly one of
\* them flagged is_last, and it is the final field of the block.
C22_LastFieldFlagged ==
    (Returned /\ prog.consensus_ok) =>
        \A i \in 1..(Len(Nodes) - 1) :
            (Nodes[i].kind = "CIR_TYPE_DEF" /\ Nodes[i + 1].kind = "CIR_TYPE_FIELD") =>
                \A j \in (i + 1)..FieldRunEnd(Nodes, i + 1) :
                    Nodes[j].is_last_field <=> (j = FieldRunEnd(Nodes, i + 1))

\* the index in the sequence handed to COMMIT of the TypeDef that opened the
\* type block being read, 0 when there is none
BlockTypeDef ==
    LET D == {i \in 1..Len(attempts) : attempts[i].kind = "CIR_TYPE_DEF"}
    IN  IF D = {} THEN 0 ELSE MaxOf(D)

\* node i is the most recent TypeField, and it lies in the type block being read
MostRecentFieldOfBlock(i) ==
    /\ Nodes[i].kind = "CIR_TYPE_FIELD"
    /\ \A j \in (i + 1)..Len(Nodes) : Nodes[j].kind # "CIR_TYPE_FIELD"
    /\ BlockTypeDef \in 1..(i - 1)

\* C23: a step of the linking pass leaves every committed node in its place
\* and as it is, except that the step that closes a type block may set
\* is_last_field, and nothing else, on the most recent TypeField of that block;
\* no node is removed or reordered.
C23_CommittedNodesFrozen ==
    [][pc = "scan" =>
         /\ Len(prog'.nodes) >= Len(Nodes)
         /\ \A i \in 1..Len(Nodes) :
               \/ prog'.nodes[i] = Nodes[i]
               \/ /\ in_type_block /\ ~in_type_block'
                  /\ MostRecentFieldOfBlock(i)
                  /\ prog'.nodes[i] = [Nodes[i] EXCEPT !.is_last_field = TRUE]]_vars

\* a closed type block of two fields with only the second flagged, and a line
\* read behind it
C23_Witness ==
    /\ pc = "scan" /\ ~in_type_block
    /\ \E i \in 1..Len(Nodes) :
          /\ i + 2 <= Len(Nodes)
          /\ line_num > Nodes[i + 2].source_line + 1
          /\ Nodes[i].kind = "CIR_TYPE_DEF"
          /\ Nodes[i + 1].kind = "CIR_TYPE_FIELD" /\ ~Nodes[i + 1].is_last_field
          /\ Nodes[i + 2].kind = "CIR_TYPE_FIELD" /\ Nodes[i + 2].is_last_field
          /\ attempts[i + 2] # Nodes[i + 2]

\* the kind written in a span opener: the text between '<' and '>'
KindWritten(t) == SubSeq(t, strchr(t, "<") + 1, strchr(t, ">") - 1)

\* the byte size a piece of block text gives: the number behind its last
\* "bytes:", and the size so far when it has none
RECURSIVE BytesGiven(_, _)
BytesGiven(text, sofar) ==
    LET at == strstr(text, <<"b","y","t","e","s",":">>)
    IN  IF at = 0 THEN sofar
        ELSE BytesGiven(Drop(text, at + 5), atoi(Drop(text, at + 5)))

\* the <<kind, byte size>> of the span blocks of src that are closed, in
\* order, for a source without type and policy blocks: a block runs from its
\* opener to the first '}' and its size is 4096 or what its last "bytes:" gives
RECURSIVE ClosedSpans(_, _, _, _, _)
ClosedSpans(src, i, open, kind, bytes) ==
    IF i > Len(src) THEN << >>
    ELSE LET t == TrimmedOf[src[i]]
         IN  IF t = << >> THEN ClosedSpans(src, i + 1, open, kind, bytes)
             ELSE IF open
             THEN LET b == BytesGiven(t, bytes)
                  IN  IF strchr(t, "}") # 0
                      THEN << << kind, b >> >> \o ClosedSpans(src, i + 1, FALSE, << >>, 0)
                      ELSE ClosedSpans(src, i + 1, TRUE, kind, b)
             ELSE IF ClassOf[src[i]] = "span_start"
             THEN LET k == KindWritten(t)
                      b == BytesGiven(t, 4096)
                  IN  IF strchr(t, "}") # 0
                      THEN << << k, b >> >> \o ClosedSpans(src, i + 1, FALSE, << >>, 0)
                      ELSE ClosedSpans(src, i + 1, TRUE, k, b)
             ELSE ClosedSpans(src, i + 1, FALSE, << >>, 0)

\* the <<kind, byte size>> of the Span nodes handed to COMMIT, in order
SpanAttempts ==
    LET S == SelectSeq(attempts, LAMBDA n : n.kind = "CIR_SPAN")
    IN  [i \in 1..Len(S) |-> << S[i].span_kind, S[i].span_bytes >>]

\* no line of the source opens a type or a policy block
OnlySpanBlocks ==
    \A i \in 1..Len(source) : ClassOf[source[i]] \notin {"type_start", "policy"}

\* C24 as stated: exactly one Span node is committed for every closed span
\* block, carrying the kind written in the opener and the byte size 4096, or
\* the value of the last "bytes:" of the block when it has one.
C24_SpanPerClosedBlock ==
    (Returned /\ prog.consensus_ok /\ OnlySpanBlocks) =>
        SpanAttempts = ClosedSpans(source, 1, FALSE, << >>, 0)

\* the Assign nodes flagged is_first_use, in node order
FirstUseAssigns(nodes) ==
    SelectSeq(nodes, LAMBDA n : n.kind = "CIR_ASSIGN" /\ n.is_first_use)

\* one local declaration for each of the given Assign nodes, in order
LocalDecls(assigns) ==
    [i \in 1..Len(assigns) |-> Chunk("    (local $%s i32)\n", << assigns[i].var_name >>)]

\* the body operations of nodes[i], nodes[i+1], ... in that order
RECURSIVE WatBodyFrom(_, _)
WatBodyFrom(nodes, i) ==
    IF i > Len(nodes) THEN << >>
    ELSE wat_body(nodes[i]) \o WatBodyFrom(nodes, i + 1)

\* a write of the sink is a local declaration
IsLocalDecl(c) == c.fmt = "    (local $%s i32)\n"

\* C25: for the WAT target, when every write reached the sink, the output is
\* the header, then one local declaration for each Assign node flagged
\* is_first_use in node order, then the body operations of every node in node
\* order, then the footer; no local declaration comes after a body operation.
C25_WatLocalsThenBody ==
    (epc = "returned" /\ emit_ret = "true" /\ target = "RIFT_TARGET_WAT"
       /\ ~sink_error) =>
        LET decls == LocalDecls(FirstUseAssigns(Nodes))
        IN  /\ out = codec_emit_header("RIFT_TARGET_WAT", ModeStr(prog.mode))
                       \o decls \o WatBodyFrom(Nodes, 1)
                       \o codec_emit_footer("RIFT_TARGET_WAT")
            /\ \A i \in 1..Len(out) : IsLocalDecl(out[i]) <=> i \in 2..(Len(decls) + 1)

\* a completed WAT emission of a Program with a first-use assignment, a
\* reassignment and a node before them
C25_Witness ==
    /\ epc = "returned" /\ emit_ret = "true" /\ target = "RIFT_TARGET_WAT"
    /\ ~sink_error
    /\ \E i, j \in 2..Len(Nodes) :
          /\ i < j
          /\ Nodes[i].kind = "CIR_ASSIGN" /\ Nodes[i].is_first_use
          /\ Nodes[j].kind = "CIR_ASSIGN" /\ ~Nodes[j].is_first_use

\* a write of the sink is a local.set operation
IsLocalSet(c) ==
    c.fmt \in { "    (local.set $%s (i32.const %ld))\n",
                "    (local.set $%s (i32.const 0))\n" }

\* how many local declarations of the sink name the variable v
DeclCount(v) ==
    Cardinality({i \in 1..Len(out) : IsLocalDecl(out[i]) /\ out[i].args[1] = v})

\* C26 as stated: for the WAT target and a Program with consensus_ok = true,
\* every variable the body sets with local.set is declared by exactly one
\* (local $name i32) line.
C26_WatLocalDeclaredOnce ==
    (epc = "returned" /\ emit_ret = "true" /\ target = "RIFT_TARGET_WAT"
       /\ prog.consensus_ok /\ ~sink_error) =>
        \A i \in 1..Len(out) : IsLocalSet(out[i]) => DeclCount(out[i].args[1]) = 1

\* the format of a declaring binding of the target: let, := and local
DeclaringFmt(t) ==
    CASE t = "RIFT_TARGET_JS"  -> "%slet %s = %s;\n"
      [] t = "RIFT_TARGET_GO"  -> "%s%s := %s\n"
      [] t = "RIFT_TARGET_LUA" -> "%slocal %s = %s\n"

\* the format of a plain reassignment of the target
ReassignFmt(t) ==
    CASE t = "RIFT_TARGET_JS"  -> "%s%s = %s;\n"
      [] t = "RIFT_TARGET_GO"  -> "%s%s = %s\n"
      [] t = "RIFT_TARGET_LUA" -> "%s%s = %s\n"

\* the node loop is about to render an Assign node for JS, Go or Lua
RendersAssign ==
    /\ epc = "nodes" /\ ei <= Len(Nodes)
    /\ target \in {"RIFT_TARGET_JS", "RIFT_TARGET_GO", "RIFT_TARGET_LUA"}
    /\ Nodes[ei].kind = "CIR_ASSIGN"

\* C27: for JS, Go and Lua the step that renders an Assign node makes one
\* write: the target's declaring binding (let, :=, local) exactly when the
\* node's is_first_use is true and a plain reassignment otherwise, in both
\* cases with the node's variable name and its expression text as they are.
C27_AssignRendering ==
    [][(RendersAssign /\ sink_fail_at = 0) =>
          out' = Append(out,
                   [ fmt  |-> IF Nodes[ei].is_first_use
                              THEN DeclaringFmt(target) ELSE ReassignFmt(target),
                     args |-> << IndentStr(target, indent_depth),
                                 Nodes[ei].var_name, Nodes[ei].expr >> ])]_vars

\* a completed Lua emission with a declaring binding and a reassignment of an
\* expression that is not a literal
C27_Witness ==
    /\ epc = "returned" /\ emit_ret = "true" /\ target = "RIFT_TARGET_LUA"
    /\ \E i \in 1..Len(out) : out[i].fmt = "%slocal %s = %s\n"
    /\ \E i \in 1..Len(out) :
          /\ out[i].fmt = "%s%s = %s\n"
          /\ out[i].args[3] = <<"x"," ","+"," ","1">>

\* the targets that close a block with a token of their own
CloserTargets == { "RIFT_TARGET_JS", "RIFT_TARGET_GO", "RIFT_TARGET_LUA" }

\* the indices of the While/If nodes among the first k nodes whose block is
\* still open, innermost last
RECURSIVE OpenBlocks(_, _)
OpenBlocks(nodes, k) ==
    IF k = 0 THEN << >>
    ELSE LET st == OpenBlocks(nodes, k - 1)
         IN  IF nodes[k].kind \in {"CIR_WHILE", "CIR_IF"} THEN Append(st, k)
             ELSE IF nodes[k].kind = "CIR_BLOCK_CLOSE" /\ st # << >>
                  THEN SubSeq(st, 1, Len(st) - 1)
             ELSE st

\* a write of the sink is the opening line of a while or if block
IsOpenerLine(c) ==
    c.fmt \in { "%swhile (%s) {\n", "%sfor %s {\n", "%swhile %s do\n",
                "%sif (%s) {\n", "%sif %s {\n", "%sif %s then\n" }

\* the indentation written in front of the opening line of node j
OpenerIndent(j) ==
    LET r == Cardinality({k \in 1..j : Nodes[k].kind \in {"CIR_WHILE", "CIR_IF"}})
        lines == SelectSeq(out, IsOpenerLine)
    IN  lines[r].args[1]

\* the closing token of the target, behind its indentation
CloserFmt(t) == IF t = "RIFT_TARGET_LUA" THEN "%send\n" ELSE "%s}\n"

\* the node loop is about to render a BlockClose node for JS, Go or Lua
RendersClose ==
    /\ epc = "nodes" /\ ei <= Len(Nodes)
    /\ target \in CloserTargets
    /\ Nodes[ei].kind = "CIR_BLOCK_CLOSE"

\* C28: the emitter's indent depth is never negative; for JS, Go and Lua the
\* step that renders a BlockClose decrements the depth (when it is above 0)
\* and writes the closing token at the indentation of the decremented depth,
\* which for a BlockClose that closes a While/If block is the indentation
\* written in front of the line that opened it.
C28_CloserAtOpenerIndent ==
    [][/\ indent_depth' >= 0
       /\ (RendersClose /\ sink_fail_at = 0) =>
            /\ indent_depth' = IF indent_depth > 0 THEN indent_depth - 1 ELSE 0
            /\ out' = Append(out, [ fmt  |-> CloserFmt(target),
                                    args |-> << IndentStr(target, indent_depth') >> ])
            /\ LET st == OpenBlocks(Nodes, ei - 1)
               IN  st # << >> =>
                     out'[Len(out')].args[1] = OpenerIndent(st[Len(st)])]_vars

\* a completed Go emission in which an inner block was closed at one level of
\* indentation and then the outer one at none
C28_Witness ==
    /\ epc = "returned" /\ emit_ret = "true" /\ target = "RIFT_TARGET_GO"
    /\ \E i \in 1..(Len(out) - 1) :
          /\ out[i].fmt = "%s}\n" /\ out[i].args[1] = << "\t", "\t" >>
          /\ out[i + 1].fmt = "%s}\n" /\ out[i + 1].args[1] = << "\t" >>

\* how many of the first k nodes have one of the given kinds
KindCount(nodes, k, kinds) == Cardinality({i \in 1..k : nodes[i].kind \in kinds})

\* C29 as stated: in a Program returned with consensus_ok = true every prefix
\* of the node sequence holds no more BlockClose nodes than While plus If
\* nodes.
C29_ClosersWithinOpeners ==
    (Returned /\ prog.consensus_ok) =>
        \A k \in 1..Len(Nodes) :
            KindCount(Nodes, k, {"CIR_BLOCK_CLOSE"})
                <= KindCount(Nodes, k, {"CIR_WHILE", "CIR_IF"})

\* the index of the first write behind index i that is not a struct field line
RECURSIVE AfterFields(_)
AfterFields(i) ==
    IF i < Len(out) /\ out[i + 1].fmt = "%s\t%s %s\n" THEN AfterFields(i + 1) ELSE i + 1

\* C30 as stated: for the Go target and a Program with consensus_ok = true,
\* every `type Name struct {` line is followed by its field lines and then by
\* the closing `}` of the struct, before anything else is written.
C30_GoStructClosed ==
    (epc = "returned" /\ emit_ret = "true" /\ target = "RIFT_TARGET_GO"
       /\ prog.consensus_ok /\ ~sink_error) =>
        \A i \in 1..Len(out) :
            out[i].fmt = "%stype %s struct {\n" =>
                /\ AfterFields(i) <= Len(out)
                /\ out[AfterFields(i)].fmt = "%s}\n\n"

\* the kind of node a line of the normal classification is made into
KindOfClass(c) ==
    CASE c = "comment"     -> "CIR_COMMENT"
      [] c = "govern"      -> "CIR_GOVERN"
      [] c = "type_start"  -> "CIR_TYPE_DEF"
      [] c = "policy"      -> "CIR_POLICY"
      [] c = "while"       -> "CIR_WHILE"
      [] c = "if"          -> "CIR_IF"
      [] c = "block_close" -> "CIR_BLOCK_CLOSE"
      [] c = "validate"    -> "CIR_VALIDATE"
      [] c = "assign"      -> "CIR_ASSIGN"
      [] c = "unknown"     -> "CIR_UNKNOWN"
      [] OTHER             -> "none"

\* the text of a line is one a node of this kind is made from: the closing
\* line of a span block, a "name: TYPE" line of a type block, or a line of
\* the node's own construct
ProducedFrom(n, line) ==
    LET t == cir_trim_left(cir_trim_right(line))
    IN  CASE n.kind = "CIR_SPAN"       -> strchr(t, "}") # 0
          [] n.kind = "CIR_TYPE_FIELD" -> strchr(t, ":") # 0 /\ strchr(t, "}") = 0
          [] OTHER                     -> n.kind = KindOfClass(Classify(t))

\* C34: at every point of the pass the source_line values of the committed
\* nodes are strictly increasing along the node sequence, and each is the
\* 1-based number, blank lines counted, of a line of the source that has been
\* read and from which the node was made.
C34_SourceLinesIncrease ==
    /\ \A i \in 1..(Len(Nodes) - 1) : Nodes[i].source_line < Nodes[i + 1].source_line
    /\ \A i \in 1..Len(Nodes) :
          /\ Nodes[i].source_line \in 1..line_num
          /\ Nodes[i].source_line <= Len(source)
          /\ ProducedFrom(Nodes[i], source[Nodes[i].source_line])

\* returned with two nodes, the last of them made from a line behind a blank
\* line, so that its line number is not its place in the sequence
C34_Witness ==
    /\ Returned /\ prog.consensus_ok
    /\ Len(Nodes) >= 2
    /\ \E k \in 1..Len(source) :
          /\ source[k] = L_BLANK
          /\ k < Nodes[Len(Nodes)].source_line

\* C35: while the pass is reading lines consensus_ok is false and the error
\* message is empty; the step that sets consensus_ok is the return behind the
\* loop, taken once every line of the source has been read; a Program
\* returned has consensus_ok = true exactly when its error message is empty.
C35_ConsensusSetAtEnd ==
    /\ [](pc = "scan" => (~prog.consensus_ok /\ prog.error_msg = NoError))
    /\ [][(prog'.consensus_ok /\ ~prog.consensus_ok) =>
            /\ pc = "scan" /\ pc' = "done" /\ result' = "prog"
            /\ p > Len(source) /\ line_num = Len(source)
            /\ Len(fate) = Len(source)]_vars
    /\ [](Returned => (prog.consensus_ok <=> prog.error_msg = NoError))

\* a pass that was cut short on its third line or later, with nodes committed
\* and consensus_ok still false
C35_Witness ==
    /\ Returned /\ ~prog.consensus_ok
    /\ prog.error_msg # NoError
    /\ line_num >= 3 /\ line_num < Len(source)
    /\ Len(Nodes) >= 1

\* the node loop is about to render a TypeField node for Go
RendersGoField ==
    /\ epc = "nodes" /\ ei <= Len(Nodes)
    /\ target = "RIFT_TARGET_GO"
    /\ Nodes[ei].kind = "CIR_TYPE_FIELD"

\* the field line written by the step that renders a TypeField for Go
GoFieldLine == out'[Len(out) + 1]

\* the fixed table as the specification states it
GoTypeStated(tok) ==
    CASE tok = <<"I","N","T">>         -> <<"i","n","t","3","2">>
      [] tok = <<"F","L","O","A","T">> -> <<"f","l","o","a","t","6","4">>
      [] OTHER                         -> <<"i","n","t","e","r","f","a","c","e","{","}">>

\* the fixed table with its STRING row
GoTypeTable(tok) ==
    CASE tok = <<"I","N","T">>             -> <<"i","n","t","3","2">>
      [] tok = <<"F","L","O","A","T">>     -> <<"f","l","o","a","t","6","4">>
      [] tok = <<"S","T","R","I","N","G">> -> <<"s","t","r","i","n","g">>
      [] OTHER                             -> <<"i","n","t","e","r","f","a","c","e","{","}">>

\* C36 as stated: for Go the type token of a TypeField is rendered as int32
\* for INT, as float64 for FLOAT and as interface{} for every other token.
C36_Original ==
    [][(RendersGoField /\ sink_fail_at = 0) =>
          /\ Len(out') > Len(out)
          /\ GoFieldLine.fmt = "%s\t%s %s\n"
          /\ GoFieldLine.args[3] = GoTypeStated(Nodes[ei].field_type)]_vars

\* C36: for Go the step that renders a TypeField writes the field line with
\* the node's field name and its type token rendered as int32 for INT, as
\* float64 for FLOAT, as string for STRING and as interface{} for every other
\* token.
C36_GoFieldTypes ==
    [][(RendersGoField /\ sink_fail_at = 0) =>
          /\ Len(out') > Len(out)
          /\ GoFieldLine.fmt = "%s\t%s %s\n"
          /\ GoFieldLine.args[2] = Nodes[ei].field_name
          /\ GoFieldLine.args[3] = GoTypeTable(Nodes[ei].field_type)]_vars

\* a completed Go emission with a STRING field rendered as string and a BOOL
\* field rendered as interface{}
C36_Witness ==
    /\ epc = "returned" /\ emit_ret = "true" /\ target = "RIFT_TARGET_GO"
    /\ \E i \in 1..Len(out) :
          /\ out[i].fmt = "%s\t%s %s\n"
          /\ out[i].args[2] = <<"s">>
          /\ out[i].args[3] = <<"s","t","r","i","n","g">>
    /\ \E i \in 1..Len(out) :
          /\ out[i].fmt = "%s\t%s %s\n"
          /\ out[i].args[2] = <<"b">>
          /\ out[i].args[3] = <<"i","n","t","e","r","f","a","c","e","{","}">>

\* the five targets of the emitter
BindingTargets ==
    { "RIFT_TARGET_JS", "RIFT_TARGET_PYTHON", "RIFT_TARGET_GO", "RIFT_TARGET_LUA",
      "RIFT_TARGET_WAT" }

\* the emitter is about to render a Validate node for one of the five targets
RendersValidate ==
    /\ epc \in {"nodes", "wat_body"} /\ ei <= Len(Nodes)
    /\ target \in BindingTargets
    /\ Nodes[ei].kind = "CIR_VALIDATE"

\* the lines that call the validate function of the target's binding: the
\* function of the object the header binds to the name rift (for Go, of a
\* package of that name), for WAT the function the header imports as
\* $rift_validate
ValidateCallFmts(t) ==
    CASE t = "RIFT_TARGET_JS"     -> { "%srift.validate('%s');\n" }
      [] t = "RIFT_TARGET_PYTHON" -> { "%srift.validate(%s)\n" }
      [] t = "RIFT_TARGET_LUA"    -> { "%srift.validate(%s)\n" }
      [] t = "RIFT_TARGET_GO"     -> { "%srift.validate(%s)\n", "%srift.Validate(%s)\n" }
      [] t = "RIFT_TARGET_WAT"    -> { "    (call $rift_validate (local.get $%s))\n" }

\* C37 as stated: for each of the five targets the step that renders a
\* Validate node writes one line, a call of the validate function of the
\* target's runtime-support binding with the node's argument text.
C37_ValidateCallsBinding ==
    [][(RendersValidate /\ sink_fail_at = 0) =>
          /\ Len(out') = Len(out) + 1
          /\ out'[Len(out')].fmt \in ValidateCallFmts(target)
          /\ LET a == out'[Len(out')].args
             IN  a[Len(a)] = Nodes[ei].validate_arg]_vars

\* an expression text is a numeric literal: an optional sign and then digits
\* only, at least one
IsLiteralText(e) ==
    LET d == IF e # << >> /\ Head(e) \in {"-", "+"} THEN Tail(e) ELSE e
    IN  d # << >> /\ \A i \in 1..Len(d) : IsDigit(d[i])

\* the value such a text denotes
LiteralValue(e) ==
    IF Head(e) = "-" THEN 0 - atoi_digits(Tail(e), 0)
    ELSE IF Head(e) = "+" THEN atoi_digits(Tail(e), 0)
    ELSE atoi_digits(e, 0)

\* pass 2 of the WAT emitter is about to render an Assign node
RendersWatAssign ==
    /\ epc = "wat_body" /\ ei <= Len(Nodes)
    /\ Nodes[ei].kind = "CIR_ASSIGN"

\* C38 as stated: for WAT the step that renders an Assign whose expression is
\* a numeric literal writes local.set with that constant, and the step that
\* renders an Assign with any other expression writes a comment with the
\* expression and then local.set with the constant 0.
C38_WatLiteralOrPlaceholder ==
    [][(RendersWatAssign /\ sink_fail_at = 0) =>
          LET n == Nodes[ei]
          IN  IF IsLiteralText(n.expr)
              THEN out' = Append(out,
                     [ fmt  |-> "    (local.set $%s (i32.const %ld))\n",
                       args |-> << n.var_name, Itoa(LiteralValue(n.expr)) >> ])
              ELSE out' = out \o
                     << [ fmt  |-> "    ;; expr: %s = %s\n",
                          args |-> << n.var_name, n.expr >> ],
                        [ fmt  |-> "    (local.set $%s (i32.const 0))\n",
                          args |-> << n.var_name >> ] >>]_vars

\* the driver has returned
DriverReturned == drv.pc = "returned"

\* rift_link has returned a Program whose consensus_ok is false
LinkRefused == pc = "done" /\ result = "prog" /\ ~prog.consensus_ok

\* C32: once rift_link has returned a Program with consensus_ok = false to
\* the driver, the output file is never opened and nothing is written to it,
\* rift_codec_emit is never called, and the driver's return is a failure with
\* the linker's message reported on stderr and the Program freed once.
C32_RefusedNeverEmitted ==
    LinkRefused =>
        /\ drv.file = "unopened" /\ out = << >>
        /\ drv.emits = 0 /\ epc = "idle"
        /\ DriverReturned =>
             /\ drv.ret = "false"
             /\ drv.frees = 1
             /\ err = << [ fmt  |-> "Error: Consensus validation failed: %s\n",
                           args |-> << prog.error_msg >> ] >>
             /\ prog.error_msg # NoError

\* the driver has returned failure for a source whose second line broke the
\* ordering, with a node committed from the line before it
C32_Witness ==
    /\ DriverReturned /\ LinkRefused
    /\ drv.target # "RIFT_TARGET_C"
    /\ line_num = 2 /\ Len(Nodes) = 1
    /\ drv.ret = "false"

\* C33: on the driver's non-C path a Program returned by rift_link is passed
\* to rift_codec_emit at most once and freed at most once; the free is
\* followed by the return with no step of the emitter and no change of the
\* Program in between or after; when the driver has returned the Program has
\* been freed exactly once; a NULL result is neither emitted nor freed.
C33_EmitOnceFreeOnce ==
    /\ [](drv.emits <= 1 /\ drv.frees <= 1)
    /\ []((DriverReturned /\ result = "prog") => drv.frees = 1)
    /\ [](result = "NULL" => (drv.emits = 0 /\ drv.frees = 0))
    /\ [](drv.frees >= 1 => (DriverReturned /\ epc \in {"idle", "returned"}))
    /\ [](epc \notin {"idle", "returned"} => (drv.emits = 1 /\ drv.frees = 0))
    /\ [][drv.frees >= 1 =>
            UNCHANGED << prog, epc, ei, out, emit_ret, drv >>]_vars

\* the driver has returned after an emission that ran to its end on a Program
\* of two nodes or more
C33_Witness ==
    /\ DriverReturned /\ result = "prog"
    /\ drv.emits = 1 /\ drv.frees = 1 /\ drv.file = "closed"
    /\ epc = "returned" /\ emit_ret = "true" /\ drv.ret = "true"
    /\ Len(Nodes) >= 2

\* a write of the sink is the declaring binding of the target
IsDeclaringLine(c) == c.fmt = DeclaringFmt(target)

\* a write of the sink is a plain reassignment of the target
IsReassignLine(c) == c.fmt = ReassignFmt(target)

\* a write of the sink is the closing token of the target
IsCloserLine(c) == c.fmt = CloserFmt(target)

\* how many of the writes j+1..m satisfy Test
LinesBetween(j, m, Test(_)) == Cardinality({i \in (j + 1)..m : Test(out[i])})

\* the block in which write j stands is still open at write k: between the
\* two no closing token closes more blocks than were opened behind j
StillOpen(j, k) ==
    \A m \in (j + 1)..(k - 1) :
        LinesBetween(j, m, IsCloserLine) <= LinesBetween(j, m, IsOpenerLine)

\* C31 as stated: in a completed JS, Go or Lua output every plain reassignment
\* of a variable stands behind a declaring binding of that variable whose
\* block is still open at the reassignment.
C31_ReassignInDeclaringScope ==
    (epc = "returned" /\ emit_ret = "true" /\ sink_fail_at = 0
       /\ target \in {"RIFT_TARGET_JS", "RIFT_TARGET_GO", "RIFT_TARGET_LUA"}) =>
        \A k \in 1..Len(out) :
            IsReassignLine(out[k]) =>
                \E j \in 1..(k - 1) :
                    /\ IsDeclaringLine(out[j])
                    /\ out[j].args[2] = out[k].args[2]
                    /\ StillOpen(j, k)

\* C5 (Scenario A) as stated: the one-line span, an assignment and a validate
\* link to consensus_ok = true with nodes
\* [Span(fixed,4096), Assign(x,"5",first use), Validate(x)].
C5_ScenarioA ==
    (Returned /\ source = << L_SPAN_ONE, L_ASSIGN_X, L_VALIDATE >>) =>
        /\ prog.consensus_ok
        /\ Len(Nodes) = 3
        /\ Nodes[1].kind = "CIR_SPAN"
        /\ Nodes[1].span_kind = <<"f","i","x","e","d">>
        /\ Nodes[1].span_bytes = 4096
        /\ Nodes[2].kind = "CIR_ASSIGN"
        /\ Nodes[2].var_name = <<"x">>
        /\ Nodes[2].expr = <<"5">>
        /\ Nodes[2].is_first_use
        /\ Nodes[3].kind = "CIR_VALIDATE"
        /\ Nodes[3].validate_arg = <<"x">>

\* C6 as stated: an Assign node flagged is_first_use is the earliest Assign of
\* its variable name (so at most one per name is flagged), whatever the number
\* of distinct names.
C6_FirstUseUnique ==
    Returned =>
        \A j \in 1..Len(Nodes) :
            (Nodes[j].kind = "CIR_ASSIGN" /\ Nodes[j].is_first_use) =>
                \A i \in 1..(j - 1) :
                    ~(Nodes[i].kind = "CIR_ASSIGN"
                      /\ Nodes[i].var_name = Nodes[j].var_name)

\* nodes that COMMIT dropped at capacity
Dropped == Len(attempts) - Len(Nodes)

C8_Original ==
    Returned => Len(fate) = Len(source)

\* C8: rift_link terminates; every step of the scan reads exactly the next
\* line, so lines are visited in forward order and none twice; NULL is returned
\* only by the failed allocation at entry, never because of the input; a pass
\* that is not cut short by a consensus violation has read every line once,
\* and one that is cut short has read the lines up to the violating one.
C8_TerminatesForwardOnly ==
    /\ <>(pc = "done")
    /\ [][(pc = "scan" /\ p <= Len(source)) =>
            (p' = p + 1 /\ line_num' = line_num + 1 /\ Len(fate') = Len(fate) + 1)]_vars
    /\ [][result' = "NULL" => pc = "call"]_vars
    /\ []((Returned /\ prog.consensus_ok) =>
            (Len(fate) = Len(source) /\ p = Len(source) + 1))
    /\ []((Returned /\ ~prog.consensus_ok) =>
            (Len(fate) = line_num /\ p = line_num + 1 /\ line_num <= Len(source)))

\* returned from a source with an unknown line and an unterminated block
C8_Witness ==
    /\ Returned /\ prog.consensus_ok
    /\ in_span_block \/ in_type_block \/ in_policy_block
    /\ \E i \in 1..Len(Nodes) : Nodes[i].kind = "CIR_UNKNOWN"

\* C9: the node count never exceeds RIFT_CIR_MAX_NODES; the nodes kept are the
\* first ones handed to COMMIT, in order, as committed (the type-close fix-up
\* aside, which sets is_last_field); dropping raises no error and the pass
\* still reads every line and ends with consensus_ok = true unless it is cut
\* short by a consensus violation.
C9_CapacityDropsTail ==
    /\ Len(Nodes) <= RIFT_CIR_MAX_NODES
    /\ Len(Nodes) = Min2(Len(attempts), RIFT_CIR_MAX_NODES)
    /\ \A i \in 1..Len(Nodes) :
          \/ Nodes[i] = attempts[i]
          \/ /\ attempts[i].kind = "CIR_TYPE_FIELD"
             /\ Nodes[i] = [attempts[i] EXCEPT !.is_last_field = TRUE]
    /\ (Dropped > 0 /\ FateCount("abort") = 0) => prog.error_msg = NoError
    /\ (Returned /\ FateCount("abort") = 0) =>
          (prog.consensus_ok /\ Len(fate) = Len(source))

\* returned with consensus_ok = true after nodes were dropped
C9_Witness ==
    /\ Returned /\ prog.consensus_ok
    /\ Dropped > 0

\* the "!govern" nodes handed to COMMIT, in order
GovernAttempts == SelectSeq(attempts, LAMBDA n : n.kind = "CIR_GOVERN")

\* the mode a directive names: the word behind "!govern "
NamedMode(line) ==
    LET w == Drop(TrimmedOf[line], 8)
    IN  CASE w = <<"c","l","a","s","s","i","c","a","l">> -> "RIFT_MODE_CLASSICAL"
          [] w = <<"q","u","a","n","t","u","m">> -> "RIFT_MODE_QUANTUM"
          [] w = <<"h","y","b","r","i","d">> -> "RIFT_MODE_HYBRID"

\* C10: the returned Program's mode is the mode named by the last "!govern"
\* directive processed, and the caller's default mode when none was processed.
C10_ModeIsLastGovern ==
    Returned =>
        prog.mode =
            (IF GovernAttempts = <<>> THEN default_mode
             ELSE NamedMode(source[GovernAttempts[Len(GovernAttempts)].source_line]))

\* two directives processed, the last one overriding the caller's default
C10_Witness ==
    /\ Returned
    /\ Len(GovernAttempts) >= 2
    /\ prog.mode # default_mode
    /\ prog.mode # GovernMode(GovernAttempts[1].mode)

====
